---- MODULE Spec2Model ----
(***************************************************************************)
(* A model of the interpreted data-model engine (fallback/data_model.py,   *)
(* fallback/codes_bin.py): records with a sparse field store and a         *)
(* change-set, change-tracking Array / Map / IdMap containers, the dict    *)
(* and binary encoders and decoders, and the reference resolver.           *)
(*                                                                         *)
(* Records live in a heap (a sequence of objects addressed by position),   *)
(* so that object identity, aliasing through reference fields and patching *)
(* in place are observable.  Containers are stored inline in the field of  *)
(* the record that owns them.  Primitive values are integers and strings.  *)
(***************************************************************************)
EXTENDS Integers, Sequences, FiniteSets, TLC

VARIABLES heap,    \* Seq of objects: [cls, d, chg]
          src,     \* address of the source record graph (r, r1)
          dst,     \* address of the destination record graph (d, r2); 0 = none
          last,    \* the last operation: its name, arguments and result
          steps    \* number of operations applied so far

vars == <<heap, src, dst, last, steps>>

----------------------------------------------------------------------------
(* Bounds of the model *)

MaxVal == 1      \* integer field values are drawn from 0..MaxVal
MaxKey == 2      \* map keys and oids are the first MaxKey of KeyNames
MaxSteps == 2    \* mutations per behaviour

Vals == 0..MaxVal

\* Map keys and oids are strings (key='string', oid = Field('string', 1)),
\* listed in the order in which a mapping is iterated.
KeyNames == <<"a", "b", "c", "d">>
Keys == {KeyNames[i] : i \in 1..MaxKey}

----------------------------------------------------------------------------
(* Values *)

\* A stored value is one of: None, a primitive, a pointer to a record, an
\* Array or a Map.  The tag k sorts before every other field name, so two
\* values of different kinds compare unequal without their payloads being
\* compared.
VNone == [k |-> "none"]
VInt(n) == [k |-> "int", v |-> n]
VStr(s) == [k |-> "str", v |-> s]
VObj(a) == [k |-> "obj", v |-> a]

\* class Array(list): the items and the _changed bit
Array(items) == [k |-> "arr", items |-> items, changed |-> FALSE]

\* class Map(dict): the entries, the _removed set and the _changed bit
Map(m) == [k |-> "map", m |-> m, removed |-> {}, changed |-> FALSE]

\* The empty mapping
EmptyFun == [z \in {} |-> VNone]

\* '*' in a __changed_set__: every field counts as changed.  Field indices
\* are positive, so the wildcard is modelled by the index no field has.
STAR == 0

\* Body(x) for x the value of e: e is evaluated once, however often Body
\* uses it
Bind(e, Body(_)) == CHOOSE out \in {Body(x) : x \in {e}} : TRUE

\* Generic left fold over a sequence; the accumulator and the rest of the
\* sequence are evaluated once per step
RECURSIVE FoldSeq(_, _, _)
FoldSeq(F(_, _), acc, s) ==
    CHOOSE out \in {IF rest = <<>> THEN a ELSE FoldSeq(F, F(a, Head(rest)), Tail(rest)) :
                       a \in {acc}, rest \in {s}} : TRUE

\* The keys of a set of keys in iteration order (dict.iterkeys)
iterkeys(S) == SelectSeq(KeyNames, LAMBDA x : x \in S)

\* The values of a mapping in iteration order (dict.itervalues)
itervalues(m) == FoldSeq(LAMBDA acc, key : Append(acc, m[key]), <<>>, iterkeys(DOMAIN m))

----------------------------------------------------------------------------
(* Schema *)

\* Field(typ, index, array, map, id_map, key, ref, skip_changed)
Field(name, index, card, type, ref, skip) ==
    [name |-> name, index |-> index,
     array |-> card = "array", map |-> card = "map", id_map |-> card = "id_map",
     is_data_model_type |-> type \notin {"uint16", "int32", "uint32", "string"},
     value_type |-> type,
     ref |-> ref, skip_changed |-> skip]

\* Field(typ, index, arithm=True, min_value=..., default=...): the
\* attributes of an arithmetic field, None for one that is not given
ArithmField(field, min_value, dflt) ==
    field @@ [arithm |-> TRUE, min_value |-> min_value, default |-> dflt]

\* field.is_unsigned: the type is one of _unsigned_types
is_unsigned(field) == field.value_type \in {"uint16", "uint32"}

\* Field.is_container
is_container(field) == field.array \/ field.map \/ field.id_map

\* The record types, each with its field list sorted by index.
\*   class Coord:  oid = Field('string', 1); x = Field('uint32', 2)
\*   class Scene:  coords  = MapField(Coord, 1, key='string')
\*                 refs    = MapField(Coord, 2, key='string', ref=True)
\*                 point1  = Field(Coord, 3)
\*                 objects = IdMapField(Coord, 4, key='string')
\*                 points  = ArrayField(Coord, 5)
\*                 n       = Field('uint32', 6)
\*                 s       = Field(Coord, 7, skip_changed=True)
\*                 sk      = ArrayField(Coord, 8, skip_changed=True)
\*   class Entity: oid = Field('string', 1); pos = Field(Coord, 2)
\*   class World:  entities = IdMapField(Entity, 1, key='string')
\*   class Point:  x = Field('int32', 1, arithm=True, min_value=-1)
\*                 y = Field('uint32', 2, arithm=True)
\*                 z = Field('int32', 3, arithm=True)
\*                 w = Field('uint16', 4, arithm=True)
\*                 n = Field('uint32', 5, arithm=True, default=2)
\*   class Doc:    before  = MapField(Coord, 1, key='string', ref=True)
\*                 objects = IdMapField(Coord, 2, key='string')
\*                 after   = MapField(Coord, 3, key='string', ref=True)
_fields(cls) ==
    IF cls = "Coord"
    THEN << Field("oid", 1, "scalar", "string", FALSE, FALSE),
            Field("x", 2, "scalar", "uint32", FALSE, FALSE) >>
    ELSE IF cls = "Entity"
    THEN << Field("oid", 1, "scalar", "string", FALSE, FALSE),
            Field("pos", 2, "scalar", "Coord", FALSE, FALSE) >>
    ELSE IF cls = "World"
    THEN << Field("entities", 1, "id_map", "Entity", FALSE, FALSE) >>
    ELSE IF cls = "Point"
    THEN << ArithmField(Field("x", 1, "scalar", "int32", FALSE, FALSE), VInt(-1), VNone),
            ArithmField(Field("y", 2, "scalar", "uint32", FALSE, FALSE), VNone, VNone),
            ArithmField(Field("z", 3, "scalar", "int32", FALSE, FALSE), VNone, VNone),
            ArithmField(Field("w", 4, "scalar", "uint16", FALSE, FALSE), VNone, VNone),
            ArithmField(Field("n", 5, "scalar", "uint32", FALSE, FALSE), VNone, VInt(2)) >>
    ELSE IF cls = "Doc"
    THEN << Field("before", 1, "map", "Coord", TRUE, FALSE),
            Field("objects", 2, "id_map", "Coord", FALSE, FALSE),
            Field("after", 3, "map", "Coord", TRUE, FALSE) >>
    ELSE << Field("coords", 1, "map", "Coord", FALSE, FALSE),
            Field("refs", 2, "map", "Coord", TRUE, FALSE),
            Field("point1", 3, "scalar", "Coord", FALSE, FALSE),
            Field("objects", 4, "id_map", "Coord", FALSE, FALSE),
            Field("points", 5, "array", "Coord", FALSE, FALSE),
            Field("n", 6, "scalar", "uint32", FALSE, FALSE),
            Field("s", 7, "scalar", "Coord", FALSE, TRUE),
            Field("sk", 8, "array", "Coord", FALSE, TRUE) >>

FieldNames(cls) == {_fields(cls)[i].name : i \in DOMAIN _fields(cls)}

\* cls._fields_by_name.get(name); the name is a field of the class
_fields_by_name(cls, name) ==
    LET fs == _fields(cls) IN fs[CHOOSE i \in DOMAIN fs : fs[i].name = name]

\* cls._fields_by_index.get(index)
_fields_by_index(cls, index) ==
    LET fs == _fields(cls) IN fs[CHOOSE i \in DOMAIN fs : fs[i].index = index]

FieldIndexes(cls) == {_fields(cls)[i].index : i \in DOMAIN _fields(cls)}

----------------------------------------------------------------------------
(* Records *)

\* The __dict__ of an object of class cls holding the values of init: one
\* entry per field, None for a field that is not stored
obj_dict(cls, init) ==
    LET get(f) == IF f \in DOMAIN init THEN init[f] ELSE VNone
    IN  IF cls = "Coord"
        THEN [oid |-> get("oid"), x |-> get("x")]
        ELSE IF cls = "Entity"
        THEN [oid |-> get("oid"), pos |-> get("pos")]
        ELSE IF cls = "World"
        THEN [entities |-> get("entities")]
        ELSE IF cls = "Point"
        THEN [x |-> get("x"), y |-> get("y"), z |-> get("z"), w |-> get("w"), n |-> get("n")]
        ELSE IF cls = "Doc"
        THEN [before |-> get("before"), objects |-> get("objects"), after |-> get("after")]
        ELSE [coords |-> get("coords"), refs |-> get("refs"), point1 |-> get("point1"),
              objects |-> get("objects"), points |-> get("points"), n |-> get("n"),
              s |-> get("s"), sk |-> get("sk")]

\* set_data going through the setters: every initial value marks its field
set_data_by_setters(cls, init) ==
    [cls |-> cls,
     d   |-> obj_dict(cls, init),
     chg |-> {_fields_by_name(cls, f).index : f \in DOMAIN init}]

\* DataModel.__init__ / set_data: the fields named in init are written
\* straight into the object's storage; no change is marked.
set_data(cls, init) ==
    [cls |-> cls,
     d   |-> obj_dict(cls, init),
     chg |-> {}]

\* Allocation: a new object gets the next address
Alloc(h, obj) == Append(h, obj)
NewAddr(h) == Len(h) + 1

\* heap with one stored field of one object replaced
PutField(h, a, fname, value) == [h EXCEPT ![a].d[fname] = value]

\* _mark_changed that records nothing
_mark_changed_nothing(h, a, field_index) == h

\* _mark_changed(field_index, self)
_mark_changed(h, a, field_index) == [h EXCEPT ![a].chg = @ \cup {field_index}]

----------------------------------------------------------------------------
(* Change tracking on records and containers *)

\* The records among a sequence of values (isinstance(v, DataModel))
Records(values) == SelectSeq(values, LAMBDA v : v.k = "obj")

\* _try_set_changed(v) for a record v: v.set_changed(), the wildcard
_try_set_changed(h, v) ==
    IF v.k = "obj" THEN [h EXCEPT ![v.v].chg = @ \cup {STAR}] ELSE h

\* Array.broadcast_changed / Map.broadcast_changed
broadcast_changed(h, values) == FoldSeq(_try_set_changed, h, values)

\* The values held by a container, in iteration order
Elements(c) == IF c.k = "arr" THEN c.items ELSE itervalues(c.m)

RECURSIVE _has_field_changed(_, _, _, _)
RECURSIVE _has_changed(_, _, _)

\* _try_check_changed(v): v.has_changed() for a record, with the default
\* recursive=False
_try_check_changed(h, v) ==
    IF v.k = "obj" THEN _has_changed(h, v.v, FALSE) ELSE FALSE

\* Array.has_changed / Map.has_changed
container_has_changed(h, c, recursive) ==
    IF c.changed THEN TRUE
    ELSE IF recursive
         THEN \E i \in DOMAIN Elements(c) : _try_check_changed(h, Elements(c)[i])
         ELSE FALSE

_has_field_changed(h, a, field, recursive) ==
    IF field.skip_changed THEN FALSE
    ELSE
      LET changed_set == h[a].chg
          value == h[a].d[field.name]
      IN  IF STAR \in changed_set THEN TRUE
          ELSE IF is_container(field) THEN
                 IF field.index \in changed_set THEN TRUE
                 ELSE IF value # VNone
                      THEN IF field.ref
                           THEN container_has_changed(h, value, FALSE)
                           ELSE container_has_changed(h, value, recursive)
                      ELSE FALSE
          ELSE IF field.is_data_model_type /\ ~field.ref THEN
                 IF field.index \in changed_set THEN TRUE
                 ELSE IF recursive /\ value # VNone
                      THEN _has_changed(h, value.v, recursive)
                      ELSE FALSE
          ELSE field.index \in changed_set

_has_changed(h, a, recursive) ==
    \E i \in DOMAIN _fields(h[a].cls) :
        _has_field_changed(h, a, _fields(h[a].cls)[i], recursive)

\* DataModel.has_changed(field_name, recursive)
has_changed(h, a, field_name, recursive) ==
    _has_field_changed(h, a, _fields_by_name(h[a].cls, field_name), recursive)

\* _can_clear_change ignoring skip_changed
_can_clear_change_any(field) == TRUE

\* _can_clear_change(self, field)
_can_clear_change(field) == IF field.skip_changed THEN FALSE ELSE TRUE

\* _set_changed adding the wildcard whatever names are given
_set_changed_wildcard(h, a, field_names) == [h EXCEPT ![a].chg = @ \cup {STAR}]

\* _set_changed(self, *field_names): no names adds the wildcard, names add
\* their indices
_set_changed(h, a, field_names) ==
    IF Len(field_names) = 0
    THEN [h EXCEPT ![a].chg = @ \cup {STAR}]
    ELSE [h EXCEPT ![a].chg = @ \cup
             {_fields_by_name(h[a].cls, field_names[i]).index : i \in DOMAIN field_names}]

RECURSIVE _clear_changed(_, _, _, _)

\* _try_clear_changed that clears nothing
_try_clear_changed_nothing(h, v) == h

\* _try_clear_changed(v): v.clear_changed() for a record, recursive by default
_try_clear_changed(h, v) ==
    IF v.k = "obj" THEN _clear_changed(h, v.v, <<>>, TRUE) ELSE h

\* A container clear that cleans the elements but leaves the container's
\* own flag set
container_clear_changed_keeps_flag(h, a, fname, recursive) ==
    IF recursive THEN FoldSeq(_try_clear_changed, h, Elements(h[a].d[fname])) ELSE h

\* Array.clear_changed / Map.clear_changed on the container stored in field
\* fname of record a
container_clear_changed(h, a, fname, recursive) ==
    LET c == h[a].d[fname]
        c1 == IF c.k = "map" THEN [c EXCEPT !.changed = FALSE, !.removed = {}]
              ELSE [c EXCEPT !.changed = FALSE]
        h1 == PutField(h, a, fname, c1)
    IN  IF recursive THEN FoldSeq(_try_clear_changed, h1, Elements(c1)) ELSE h1

_clear_field_changed(h, a, field, recursive) ==
    IF _can_clear_change(field) = FALSE THEN h
    ELSE
      LET h1 == [h EXCEPT ![a].chg = @ \ {field.index, STAR}]
          value == h[a].d[field.name]
      IN  IF is_container(field) THEN
             IF value # VNone
             THEN IF field.ref
                  THEN container_clear_changed(h1, a, field.name, FALSE)
                  ELSE container_clear_changed(h1, a, field.name, recursive)
             ELSE h1
          ELSE IF field.is_data_model_type THEN
             IF recursive /\ value # VNone
             THEN _clear_changed(h1, value.v, <<>>, recursive)
             ELSE h1
          ELSE h1

\* _clear_changed(self, field_names, recursive): the named fields, or every
\* field when no name is given
_clear_changed(h, a, field_names, recursive) ==
    LET cls == h[a].cls
        Step(acc, field) == _clear_field_changed(acc, a, field, recursive)
    IN  IF Len(field_names) > 0
        THEN FoldSeq(LAMBDA acc, name : Step(acc, _fields_by_name(cls, name)),
                     h, field_names)
        ELSE FoldSeq(Step, h, _fields(cls))

----------------------------------------------------------------------------
(* Accessors *)

\* field.default: default or _default_values.get(type_name)
default(field) ==
    IF "default" \in DOMAIN field /\ field.default \notin {VNone, VInt(0)} THEN field.default
    ELSE IF field.value_type \in {"uint16", "int32", "uint32"} THEN VInt(0)
    ELSE IF field.value_type = "string" THEN VStr("")
    ELSE VNone

\* _fget(key, default, self)
_fget(h, a, fname) ==
    IF h[a].d[fname] # VNone THEN h[a].d[fname]
    ELSE default(_fields_by_name(h[a].cls, fname))

\* _fset without the comparison: every assignment writes and marks
_fset_unconditional(h, a, fname, value) ==
    _mark_changed(PutField(h, a, fname, value), a, _fields_by_name(h[a].cls, fname).index)

\* _fset(key, field_index, self, value)
_fset(h, a, fname, value) ==
    IF h[a].d[fname] # value
    THEN _mark_changed(PutField(h, a, fname, value), a,
                       _fields_by_name(h[a].cls, fname).index)
    ELSE h

\* field.container_class()
container_class(field) == IF field.array THEN Array(<<>>) ELSE Map(EmptyFun)

\* _fget_container(key, container_class, self): reading a container field
\* stores an empty container when none is stored
_fget_container(h, a, fname) ==
    IF h[a].d[fname] = VNone
    THEN PutField(h, a, fname, container_class(_fields_by_name(h[a].cls, fname)))
    ELSE h

\* _fset_container(key, field_index, container_class, self, value): the
\* value (a sequence or a mapping) is wrapped, broadcast and stored
_fset_container(h, a, fname, value) ==
    LET field == _fields_by_name(h[a].cls, fname)
        c  == IF field.array THEN Array(value) ELSE Map(value)
        h1 == broadcast_changed(h, Elements(c))
    IN  _mark_changed(PutField(h1, a, fname, c), a, field.index)

----------------------------------------------------------------------------
(* Containers *)

\* mapping with key k set to v / with key k deleted
RECURSIVE Restrict(_, _)
Restrict(f, S) ==
    IF S = {} THEN EmptyFun
    ELSE LET x == CHOOSE y \in S : TRUE IN (x :> f[x]) @@ Restrict(f, S \ {x})
SetKey(f, k, v) == (k :> v) @@ f
DelKey(f, k) == Restrict(f, DOMAIN f \ {k})

\* sequence with v inserted so that it becomes element i / with element i removed
InsertAt(s, i, v) == SubSeq(s, 1, i - 1) \o <<v>> \o SubSeq(s, i, Len(s))
RemoveAt(s, i) == SubSeq(s, 1, i - 1) \o SubSeq(s, i + 1, Len(s))

\* The Array operations mark the array, broadcast to the elements it holds
\* at that moment, and then change the list.  They act on the container of
\* field fname of record a, read through the field's getter.

\* Array.append(v)
Array_append(h, a, fname, v) ==
    LET h0 == _fget_container(h, a, fname)
        c  == h0[a].d[fname]
        h1 == broadcast_changed(h0, c.items)
    IN  PutField(h1, a, fname, [c EXCEPT !.changed = TRUE, !.items = Append(@, v)])

\* Array.extend(vs) and Array.__iadd__(vs)
Array_extend(h, a, fname, vs) ==
    LET h0 == _fget_container(h, a, fname)
        c  == h0[a].d[fname]
        h1 == broadcast_changed(h0, c.items)
    IN  PutField(h1, a, fname, [c EXCEPT !.changed = TRUE, !.items = @ \o vs])

\* Array.insert(k, v): v becomes element i (1-based)
Array_insert(h, a, fname, i, v) ==
    LET h0 == _fget_container(h, a, fname)
        c  == h0[a].d[fname]
        h1 == broadcast_changed(h0, c.items)
    IN  PutField(h1, a, fname, [c EXCEPT !.changed = TRUE, !.items = InsertAt(@, i, v)])

\* Array.__setitem__(k, v) on an existing position i (1-based)
Array_setitem(h, a, fname, i, v) ==
    LET h0 == _fget_container(h, a, fname)
        c  == h0[a].d[fname]
        h1 == broadcast_changed(h0, c.items)
    IN  PutField(h1, a, fname, [c EXCEPT !.changed = TRUE, !.items[i] = v])

\* Array.pop(k) and Array.__delitem__(k) on an existing position i (1-based)
Array_pop(h, a, fname, i) ==
    LET h0 == _fget_container(h, a, fname)
        c  == h0[a].d[fname]
        h1 == broadcast_changed(h0, c.items)
    IN  PutField(h1, a, fname, [c EXCEPT !.changed = TRUE, !.items = RemoveAt(@, i)])

\* Array._append(v): the decoder's append, no change is marked
Array__append(c, v) == [c EXCEPT !.items = Append(@, v)]

\* Map.__setitem__(k, v)
Map_setitem(h, a, fname, key, v) ==
    LET h0 == _fget_container(h, a, fname)
        c  == h0[a].d[fname]
        h1 == _try_set_changed(h0, v)
    IN  PutField(h1, a, fname, [c EXCEPT !.changed = TRUE, !.m = SetKey(@, key, v)])

\* Map.__delitem__ that does not record the key in _removed
Map_delitem_untracked(h, a, fname, key) ==
    LET h0 == _fget_container(h, a, fname)
        c  == h0[a].d[fname]
    IN  PutField(h0, a, fname, [c EXCEPT !.changed = TRUE, !.m = DelKey(@, key)])

\* Map.__delitem__(k): the marks are made before dict.__delitem__ looks the
\* key up, so they stay when the key is missing and KeyError is raised
Map_delitem(h, a, fname, key) ==
    LET h0 == _fget_container(h, a, fname)
        c  == h0[a].d[fname]
    IN  PutField(h0, a, fname,
                 [c EXCEPT !.changed = TRUE, !.removed = @ \cup {key}, !.m = DelKey(@, key)])

\* A decoder's insert that stores nothing
Map__setitem_nothing(c, key, v) == c

\* Map._setitem(k, v): the decoder's insert, no change is marked
Map__setitem(c, key, v) == [c EXCEPT !.m = SetKey(@, key, v)]

\* obj.oid read through the getter; a string that is no record has no oid
oid_of(h, v) == IF v.k = "obj" THEN _fget(h, v.v, "oid") ELSE VNone

\* IdMap.add(obj): self[obj.oid] = obj
IdMap_add(h, a, fname, obj) == Map_setitem(h, a, fname, oid_of(h, obj).v, obj)

\* IdMap.remove(obj): key = obj.oid; self._removed.add(key); del self[key]
IdMap_remove(h, a, fname, obj) ==
    LET key == oid_of(h, obj).v
        h0  == _fget_container(h, a, fname)
        c   == h0[a].d[fname]
        h1  == PutField(h0, a, fname, [c EXCEPT !.removed = @ \cup {key}])
    IN  Map_delitem(h1, a, fname, key)

----------------------------------------------------------------------------
(* Dictionary form *)

\* A dict-form value is None, a primitive, a dict (a mapping from field
\* names or stringified keys to dict-form values) or a list.
Dict(f) == [k |-> "dict", v |-> f]
List(s) == [k |-> "list", v |-> s]

\* SKIP_FROM_PACK: a nested delta that produced nothing
SKIP_FROM_PACK == [k |-> "skip"]

\* codes_dict.encode_<type>(value) / decode_<type>(value): the dict form
\* carries the raw primitive value
codes_dict_encode(value) == value
codes_dict_decode(value) == value

\* _value2string[type_name] / _string2value[type_name] for 'string': str
str(s) == s

\* field.dict_key_encoder: _key_encode_to_string(type_name, encode)
dict_key_encoder(key) == str(codes_dict_encode(VStr(key)).v)

\* field.dict_key_decoder: _key_decode_from_string(type_name, decode)
dict_key_decoder(key) == codes_dict_decode(VStr(str(key))).v

\* _exclude_oid_field joined to a field filter by FieldFilter.  A field
\* filter is modelled by the set of field names it rejects.
FieldFilter(field_filter) == field_filter \cup {"oid"}

RECURSIVE _encode_to_dict(_, _, _, _, _, _)

\* _field_value_to_dict that does not hand the field filter down to the
\* encoding of a nested record
_field_value_to_dict_unfiltered(h, field, value, recursive, only_changed, clear_changed, field_filter, with_skip_from_pack) ==
    IF ~field.is_data_model_type
    THEN [h |-> h, v |-> codes_dict_encode(value)]
    ELSE IF field.ref
    THEN [h |-> h, v |-> codes_dict_encode(oid_of(h, value))]
    ELSE Bind(_encode_to_dict(h, value.v, recursive, only_changed, clear_changed, {}),
              LAMBDA r :
                [h |-> r.h,
                 v |-> IF with_skip_from_pack /\ ~r.have_data
                       THEN SKIP_FROM_PACK
                       ELSE Dict(r.dict_data)])

\* _field_value_to_dict(encoder, field, value, ...): [h, v]
_field_value_to_dict(h, field, value, recursive, only_changed, clear_changed, field_filter, with_skip_from_pack) ==
    IF ~field.is_data_model_type
    THEN [h |-> h, v |-> codes_dict_encode(value)]
    ELSE IF recursive
    THEN IF field.ref
         THEN [h |-> h, v |-> codes_dict_encode(oid_of(h, value))]
         ELSE Bind(_encode_to_dict(h, value.v, recursive, only_changed,
                                   clear_changed, field_filter),
                   LAMBDA r :
                     [h |-> r.h,
                      v |-> IF with_skip_from_pack /\ ~r.have_data
                            THEN SKIP_FROM_PACK
                            ELSE Dict(r.dict_data)])
    ELSE [h |-> h, v |-> VNone]

\* The array branch of _encode_to_dict: the list of the encoded elements
encode_array_to_dict(h, field, c, recursive, only_changed, clear_changed, field_filter) ==
    LET Step(acc, v) ==
            Bind(_field_value_to_dict(acc.h, field, v, recursive, only_changed,
                                      clear_changed, field_filter, FALSE),
                 LAMBDA r : [h |-> r.h, out |-> Append(acc.out, r.v)])
    IN  FoldSeq(Step, [h |-> h, out |-> <<>>], c.items)

\* The map and id-map branches of _encode_to_dict: the encoded entries,
\* then a None for every removed key when only_changed
encode_map_to_dict(h, field, c, recursive, only_changed, clear_changed, field_filter) ==
    LET Step(acc, key) ==
            Bind(_field_value_to_dict(acc.h, field, c.m[key], recursive, only_changed,
                                      clear_changed, field_filter, TRUE),
                 LAMBDA r :
                   IF r.v # SKIP_FROM_PACK
                   THEN [h |-> r.h,
                         d |-> SetKey(acc.d,
                                      IF field.id_map
                                      THEN dict_key_encoder(oid_of(acc.h, c.m[key]).v)
                                      ELSE dict_key_encoder(key),
                                      r.v),
                         have_data |-> TRUE]
                   ELSE [acc EXCEPT !.h = r.h])
        Tomb(acc, key) == [acc EXCEPT !.d = SetKey(@, key, VNone), !.have_data = TRUE]
    IN  FoldSeq(Tomb,
                FoldSeq(Step, [h |-> h, d |-> EmptyFun, have_data |-> FALSE],
                        iterkeys(DOMAIN c.m)),
                IF only_changed THEN iterkeys(c.removed) ELSE <<>>)

\* _encode_to_dict(dict_data, cls, obj, recursive, only_changed,
\* clear_changed, field_filter): [h, dict_data, have_data]
_encode_to_dict(h, a, recursive, only_changed, clear_changed, field_filter) ==
    LET Step(acc, field) ==
            IF acc.h[a].d[field.name] = VNone THEN acc
            ELSE IF field.name \in field_filter THEN acc
            ELSE IF only_changed /\ ~_has_field_changed(acc.h, a, field, recursive) THEN acc
            ELSE IF field.array THEN
                Bind(encode_array_to_dict(acc.h, field, acc.h[a].d[field.name], recursive,
                                          only_changed, clear_changed, field_filter),
                     LAMBDA r :
                       [h |-> r.h,
                        dict_data |-> SetKey(acc.dict_data, field.name, List(r.out)),
                        have_data |-> TRUE])
            ELSE IF field.map \/ field.id_map THEN
                Bind(encode_map_to_dict(acc.h, field, acc.h[a].d[field.name], recursive,
                                        only_changed, clear_changed,
                                        IF field.id_map THEN FieldFilter(field_filter)
                                        ELSE field_filter),
                     LAMBDA r :
                       [h |-> r.h,
                        dict_data |-> SetKey(acc.dict_data, field.name, Dict(r.d)),
                        have_data |-> acc.have_data \/ r.have_data])
            ELSE
                Bind(_field_value_to_dict(acc.h, field, acc.h[a].d[field.name], recursive,
                                          only_changed, clear_changed, field_filter, TRUE),
                     LAMBDA r :
                       IF r.v # SKIP_FROM_PACK
                       THEN [h |-> r.h,
                             dict_data |-> SetKey(acc.dict_data, field.name, r.v),
                             have_data |-> TRUE]
                       ELSE [acc EXCEPT !.h = r.h])
    IN  Bind(FoldSeq(Step, [h |-> h, dict_data |-> EmptyFun, have_data |-> ~only_changed],
                     _fields(h[a].cls)),
             LAMBDA r :
               IF clear_changed
               THEN [r EXCEPT !.h = _clear_changed(r.h, a, <<>>, FALSE)]
               ELSE r)

\* DataModel.pack_to_dict(recursive=True, only_changed, clear_changed,
\* field_filter): the dict, and the heap after the call
pack_to_dict(h, a, only_changed, clear_changed, field_filter) ==
    Bind(_encode_to_dict(h, a, TRUE, only_changed, clear_changed, field_filter),
         LAMBDA r : [h |-> r.h, ret |-> Dict(r.dict_data)])

\* pack('dict') and pack('dict', only_changed=True) without clear_changed
\* leave the heap as it is: the result alone
PackDict(h, a) == pack_to_dict(h, a, FALSE, FALSE, {}).ret
PackChanged(h, a) == pack_to_dict(h, a, TRUE, FALSE, {}).ret

----------------------------------------------------------------------------
(* Decode context *)

\* DecodeContext(mode, resolve_ref, mark_change), carrying the heap the
\* decoder works on.  known_objects maps an oid (a string, or None) to a
\* record; tmp_unsolved_ref lists (kind, container, key, oid), the container
\* named by the record and field that hold it.  resolve_ref_func is "none"
\* when no callback is given and "coords" for the callback
\* Scene2.resolve_ref: self.coords.get(ref) on the record `self`.  buf is
\* the read buffer of the binary decoder.
DecodeContext(h, mode, resolve_ref, self, mark_change) ==
    [h |-> h,
     known_objects |-> EmptyFun,
     tmp_unsolved_ref |-> <<>>,
     unsolved_ref |-> {},
     resolve_ref_func |-> resolve_ref,
     self |-> self,
     mark_change |-> mark_change,
     sync_mode |-> (mode = "sync"),
     buf |-> <<>>]

\* add_known_object that registers nothing
add_known_object_never(ctx, oid, obj) == ctx

\* DecodeContext.add_known_object(oid, obj)
add_known_object(ctx, oid, obj) ==
    IF ctx.resolve_ref_func # "none" THEN ctx
    ELSE [ctx EXCEPT !.known_objects = SetKey(@, oid, obj)]

\* DecodeContext.add_unsolved_ref((kind, container, k, v))
add_unsolved_ref(ctx, kind, a, fname, key, v) ==
    [ctx EXCEPT !.tmp_unsolved_ref =
        Append(@, [kind |-> kind, a |-> a, fname |-> fname, key |-> key, v |-> v])]

\* Scene2.resolve_ref(ref): self.coords.get(ref); reading the field stores
\* an empty Map when none is stored.  [h, obj]
resolve_ref_func(h, self, ref) ==
    Bind(_fget_container(h, self, "coords"),
         LAMBDA h0 :
           [h |-> h0,
            obj |-> IF ref.k = "str" /\ ref.v \in DOMAIN h0[self].d["coords"].m
                    THEN h0[self].d["coords"].m[ref.v] ELSE VNone])

\* A resolver that leaves the oid in the slot
resolve_store_nothing(h, t, obj) == h

\* container[k] = obj in DecodeContext.resolve_ref: Map.__setitem__ for a
\* map, Array.__setitem__ for an array, a plain store for a record's dict
resolve_store(h, t, obj) ==
    IF t.kind = "map" THEN Map_setitem(h, t.a, t.fname, t.key, obj)
    ELSE IF t.kind = "array" THEN Array_setitem(h, t.a, t.fname, t.key, obj)
    ELSE PutField(h, t.a, t.fname, obj)

\* A resolver that does not collect the oids it cannot resolve
resolve_ref_silent(ctx) ==
    LET Step(acc, t) ==
            Bind(IF acc.resolve_ref_func # "none"
                 THEN resolve_ref_func(acc.h, acc.self, t.v)
                 ELSE [h |-> acc.h,
                       obj |-> IF t.v \in DOMAIN acc.known_objects
                               THEN acc.known_objects[t.v] ELSE VNone],
                 LAMBDA r :
                   IF r.obj = VNone
                   THEN [acc EXCEPT !.h = r.h]
                   ELSE [acc EXCEPT !.h = resolve_store(r.h, t, r.obj)])
    IN  Bind(ctx, LAMBDA c : FoldSeq(Step, c, c.tmp_unsolved_ref))

\* DecodeContext.resolve_ref()
resolve_ref(ctx) ==
    LET Step(acc, t) ==
            Bind(IF acc.resolve_ref_func # "none"
                 THEN resolve_ref_func(acc.h, acc.self, t.v)
                 ELSE [h |-> acc.h,
                       obj |-> IF t.v \in DOMAIN acc.known_objects
                               THEN acc.known_objects[t.v] ELSE VNone],
                 LAMBDA r :
                   IF r.obj = VNone
                   THEN [acc EXCEPT !.h = r.h, !.unsolved_ref = @ \cup {t.v}]
                   ELSE [acc EXCEPT !.h = resolve_store(r.h, t, r.obj)])
    IN  Bind(ctx, LAMBDA c : FoldSeq(Step, c, c.tmp_unsolved_ref))

----------------------------------------------------------------------------
(* Dictionary decoder *)

\* dict_data.get(name)
dict_get(f, name) == IF name \in DOMAIN f THEN f[name] ELSE VNone

\* _mark_changed_self_dict(field_index, obj_dict) when mark_change
mark_decoded(ctx, a, field) ==
    IF ctx.mark_change THEN [ctx EXCEPT !.h = _mark_changed(@, a, field.index)] ELSE ctx

\* _create_object(field, cls, dict_data) with no create hook: cls()
_create_object(cls) == set_data(cls, EmptyFun)

RECURSIVE _decode_from_dict(_, _, _)

\* _field_object_from_dict(field, oid, dict_value, old_value, context):
\* [ctx, v].  A new record is allocated before its fields are decoded.
_field_object_from_dict(ctx, field, oid, dict_value, old_value) ==
    IF field.ref
    THEN [ctx |-> ctx, v |-> codes_dict_decode(dict_value)]
    ELSE
      LET fobj == IF old_value = VNone THEN NewAddr(ctx.h) ELSE old_value.v
      IN  Bind(_decode_from_dict(
                   IF old_value = VNone
                   THEN [ctx EXCEPT !.h = Alloc(@, _create_object(field.value_type))]
                   ELSE ctx,
                   fobj, dict_value.v),
               LAMBDA c1 :
                 [ctx |-> add_known_object(
                              IF oid # VNone
                              THEN [c1 EXCEPT !.h = PutField(@, fobj, "oid", oid)]
                              ELSE c1,
                              IF oid # VNone THEN oid ELSE dict_get(c1.h[fobj].d, "oid"),
                              VObj(fobj)),
                  v |-> VObj(fobj)])

\* _field_value_from_dict(decoder, field, dict_value, old_value, context)
_field_value_from_dict(ctx, field, dict_value, old_value) ==
    IF ~field.is_data_model_type
    THEN [ctx |-> ctx, v |-> codes_dict_decode(dict_value)]
    ELSE _field_object_from_dict(ctx, field, VNone, dict_value, old_value)

\* The array branch of _decode_from_dict
decode_array_from_dict(ctx, a, field, dvalue) ==
    LET Keep(r, arr) ==
            Bind([r.ctx EXCEPT !.h = PutField(@, a, field.name, arr)],
                 LAMBDA c1 :
                   IF field.ref
                   THEN add_unsolved_ref(c1, "array", a, field.name, Len(arr.items), r.v)
                   ELSE c1)
        Step(acc, dv) ==
            IF ~acc.sync_mode /\ dv = VNone THEN acc
            ELSE Bind(_field_value_from_dict(acc, field, dv, VNone),
                      LAMBDA r : Keep(r, Array__append(r.ctx.h[a].d[field.name], r.v)))
    IN  FoldSeq(Step, [ctx EXCEPT !.h = PutField(@, a, field.name, container_class(field))],
                dvalue.v)

\* The map and id-map branches of _decode_from_dict
decode_map_from_dict(ctx, a, field, dvalue) ==
    LET Entry(acc, key, v, old_value) ==
            Bind(IF field.id_map
                 THEN _field_object_from_dict(acc, field, VStr(key), v, old_value)
                 ELSE _field_value_from_dict(acc, field, v, old_value),
                 LAMBDA r :
                   Bind([r.ctx EXCEPT !.h =
                            PutField(@, a, field.name,
                                     Map__setitem(r.ctx.h[a].d[field.name], key, r.v))],
                        LAMBDA c1 :
                          IF field.ref
                          THEN add_unsolved_ref(c1, "map", a, field.name, key, r.v)
                          ELSE c1))
        Step(acc, k) ==
            IF ~acc.sync_mode /\ dvalue.v[k] = VNone THEN acc
            ELSE IF acc.sync_mode /\ dvalue.v[k] = VNone THEN
                IF dict_key_decoder(k) \in DOMAIN acc.h[a].d[field.name].m
                THEN [acc EXCEPT !.h = Map_delitem(@, a, field.name, dict_key_decoder(k))]
                ELSE acc
            ELSE Entry(acc, dict_key_decoder(k), dvalue.v[k],
                       IF acc.sync_mode
                          /\ dict_key_decoder(k) \in DOMAIN acc.h[a].d[field.name].m
                       THEN acc.h[a].d[field.name].m[dict_key_decoder(k)]
                       ELSE VNone)
    IN  FoldSeq(Step,
                IF ctx.sync_mode /\ ctx.h[a].d[field.name] # VNone THEN ctx
                ELSE [ctx EXCEPT !.h = PutField(@, a, field.name, container_class(field))],
                iterkeys(DOMAIN dvalue.v))

\* _decode_from_dict(obj, cls, obj_dict, dict_data, context) into record a
_decode_from_dict(ctx, a, dict_data) ==
    LET Scalar(acc, field, dvalue) ==
            Bind(_field_value_from_dict(acc, field, dvalue,
                                        IF acc.sync_mode THEN acc.h[a].d[field.name]
                                        ELSE VNone),
                 LAMBDA r :
                   Bind([r.ctx EXCEPT !.h = PutField(@, a, field.name, r.v)],
                        LAMBDA c0 :
                          IF field.ref
                          THEN add_unsolved_ref(c0, "obj_dict", a, field.name,
                                                field.name, r.v)
                          ELSE c0))
        Step(acc, field) ==
            IF dict_get(dict_data, field.name) = VNone THEN acc
            ELSE Bind(IF field.array
                      THEN decode_array_from_dict(acc, a, field,
                                                  dict_get(dict_data, field.name))
                      ELSE IF field.map \/ field.id_map
                      THEN decode_map_from_dict(acc, a, field,
                                                dict_get(dict_data, field.name))
                      ELSE Scalar(acc, field, dict_get(dict_data, field.name)),
                      LAMBDA c1 : mark_decoded(c1, a, field))
    IN  Bind(ctx, LAMBDA c : FoldSeq(Step, c, _fields(c.h[a].cls)))

\* DataModel.unpack_from_dict(dict_data, mode, resolve_ref, mark_change):
\* the heap after the call and the unsolved map (its keys), with the
\* reference slots and the known-objects table of the decode context
unpack_from_dict(h, a, dict_data, mode, resolve_ref_cb, mark_change) ==
    Bind(_decode_from_dict(DecodeContext(h, mode, resolve_ref_cb, a, mark_change),
                           a, dict_data.v),
         LAMBDA c0 :
           Bind(resolve_ref(c0),
                LAMBDA c1 : [h |-> c1.h, ret |-> c1.unsolved_ref,
                             tmp_unsolved_ref |-> c1.tmp_unsolved_ref,
                             known_objects |-> c1.known_objects]))

----------------------------------------------------------------------------
(* Binary form: buffers and primitive codecs *)

C_ARRAY_32 == 208
C_MAP_32 == 209
C_ID_MAP_32 == 210

\* The bytes of a string.  The strings of the model are the empty string
\* and the one-letter key names.
Chars == <<"a", "b", "c", "d">>
StrBytes(s) == IF s = "" THEN <<>> ELSE <<96 + CHOOSE i \in DOMAIN Chars : Chars[i] = s>>
BytesStr(bs) == IF bs = <<>> THEN "" ELSE Chars[bs[1] - 96]

\* WriteBuffer.pull(n) followed by pack_into: the bytes are written at the
\* write offset, which moves on by their number
pull(buf, bytes) == buf \o bytes

\* big-endian unsigned integers of 2 and 4 bytes ('!H', '!I')
be16(n) == <<(n \div 256) % 256, n % 256>>
be32(n) == <<(n \div 16777216) % 256, (n \div 65536) % 256, (n \div 256) % 256, n % 256>>

encode_uint32(buf, value) == pull(buf, be32(value))
encode_string(buf, value) == pull(buf, be16(Len(StrBytes(value))) \o StrBytes(value))
encode_field_index(buf, index) == pull(buf, be16(index))
encode_array_head(buf, size) == pull(pull(buf, <<C_ARRAY_32>>), be32(size))
encode_map_head(buf, size) == pull(pull(buf, <<C_MAP_32>>), be32(size))
encode_id_map_head(buf, size) == pull(pull(buf, <<C_ID_MAP_32>>), be32(size))

\* codes_bin.encode_<type_name>(buf, value) for a primitive value
bin_encoder(buf, value) ==
    IF value.k = "int" THEN encode_uint32(buf, value.v) ELSE encode_string(buf, value.v)

\* ReadBuffer: the bytes and the read offset (0-based).  push(n) moves the
\* offset on by n and hands out the n bytes it passed.
ReadBuffer(bytes) == [b |-> bytes, offset |-> 0]
push(rb, n) == [rb |-> [rb EXCEPT !.offset = @ + n],
                bytes |-> SubSeq(rb.b, rb.offset + 1, rb.offset + n)]
is_end(rb) == rb.offset >= Len(rb.b)

un16(bs) == bs[1] * 256 + bs[2]
un32(bs) == bs[1] * 16777216 + bs[2] * 65536 + bs[3] * 256 + bs[4]

\* decode_uint16-like readers: [rb, v]
decode_field_index(rb) ==
    LET r == push(rb, 2) IN [rb |-> r.rb, v |-> un16(r.bytes)]
decode_uint32(rb) ==
    LET r == push(rb, 4) IN [rb |-> r.rb, v |-> VInt(un32(r.bytes))]
decode_string(rb) ==
    LET r1 == push(rb, 2)
        r2 == push(r1.rb, un16(r1.bytes))
    IN  [rb |-> r2.rb, v |-> VStr(BytesStr(r2.bytes))]

\* decode_array_head / decode_map_head / decode_id_map_head: the marker
\* byte, then the count
decode_head(rb) ==
    LET r1 == push(rb, 1)
        r2 == push(r1.rb, 4)
    IN  [rb |-> r2.rb, v |-> un32(r2.bytes)]

\* codes_bin.decode_<type_name>(buf) for a primitive type
bin_decoder(rb, type_name) ==
    IF type_name = "uint32" THEN decode_uint32(rb) ELSE decode_string(rb)

----------------------------------------------------------------------------
(* Binary encoder *)

RECURSIVE _encode_to_binary(_, _, _, _, _, _, _)

\* _field_value_to_binary(buf, encoder, field, value, ...): [h, buf]
_field_value_to_binary(h, buf, field, value, recursive, only_changed, clear_changed, field_filter) ==
    IF ~field.is_data_model_type
    THEN [h |-> h, buf |-> bin_encoder(buf, value)]
    ELSE IF recursive
    THEN IF field.ref
         THEN [h |-> h, buf |-> bin_encoder(buf, oid_of(h, value))]
         ELSE _encode_to_binary(h, buf, value.v, recursive, only_changed,
                                clear_changed, field_filter)
    ELSE [h |-> h, buf |-> buf]

\* _encode_to_binary(buf, cls, obj, recursive, only_changed, clear_changed,
\* field_filter): [h, buf]
_encode_to_binary(h, buf, a, recursive, only_changed, clear_changed, field_filter) ==
    LET Body(acc, field, value, b0) ==
            LET Elem(acc2, v) ==
                    _field_value_to_binary(acc2.h, acc2.buf, field, v, recursive,
                                           only_changed, clear_changed, field_filter)
                Entry(acc2, key) ==
                    _field_value_to_binary(acc2.h, bin_encoder(acc2.buf, VStr(key)),
                                           field, value.m[key], recursive,
                                           only_changed, clear_changed, field_filter)
                IdEntry(acc2, v) ==
                    _field_value_to_binary(acc2.h,
                                           bin_encoder(acc2.buf, oid_of(acc2.h, v)),
                                           field, v, recursive, only_changed,
                                           clear_changed, FieldFilter(field_filter))
            IN  IF field.array THEN
                    FoldSeq(Elem,
                            [h |-> acc.h,
                             buf |-> encode_array_head(b0, Len(value.items))],
                            value.items)
                ELSE IF field.map THEN
                    FoldSeq(Entry,
                            [h |-> acc.h,
                             buf |-> encode_map_head(b0, Cardinality(DOMAIN value.m))],
                            iterkeys(DOMAIN value.m))
                ELSE IF field.id_map THEN
                    FoldSeq(IdEntry,
                            [h |-> acc.h,
                             buf |-> encode_id_map_head(b0, Cardinality(DOMAIN value.m))],
                            itervalues(value.m))
                ELSE _field_value_to_binary(acc.h, b0, field, value, recursive,
                                            only_changed, clear_changed, field_filter)
        Step(acc, field) ==
            IF acc.h[a].d[field.name] = VNone THEN acc
            ELSE IF field.name \in field_filter THEN acc
            ELSE IF only_changed /\ ~_has_field_changed(acc.h, a, field, recursive) THEN acc
            ELSE Body(acc, field, acc.h[a].d[field.name],
                      encode_field_index(acc.buf, field.index))
    IN  Bind(FoldSeq(Step, [h |-> h, buf |-> buf], _fields(h[a].cls)),
             LAMBDA r :
               [h |-> IF clear_changed THEN _clear_changed(r.h, a, <<>>, FALSE) ELSE r.h,
                buf |-> encode_field_index(r.buf, 0)])

\* DataModel.pack_to_binary(recursive=True, only_changed, clear_changed,
\* field_filter): the bytes, and the heap after the call
pack_to_binary(h, a, only_changed, clear_changed, field_filter) ==
    Bind(_encode_to_binary(h, <<>>, a, TRUE, only_changed, clear_changed, field_filter),
         LAMBDA r : [h |-> r.h, ret |-> r.buf])

----------------------------------------------------------------------------
(* Binary decoder *)

RECURSIVE _decode_from_binary(_, _)

\* _field_value_from_binary(buf, decoder, field, old_value, oid, context):
\* [ctx, v], the read buffer being ctx.buf
_field_value_from_binary(ctx, field, old_value, oid) ==
    IF ~field.is_data_model_type
    THEN Bind(bin_decoder(ctx.buf, field.value_type),
              LAMBDA r : [ctx |-> [ctx EXCEPT !.buf = r.rb], v |-> r.v])
    ELSE IF field.ref
    THEN Bind(bin_decoder(ctx.buf, "string"),
              LAMBDA r : [ctx |-> [ctx EXCEPT !.buf = r.rb], v |-> r.v])
    ELSE
      LET fobj == IF old_value = VNone THEN NewAddr(ctx.h) ELSE old_value.v
      IN  Bind(_decode_from_binary(
                   IF old_value = VNone
                   THEN [ctx EXCEPT !.h = Alloc(@, _create_object(field.value_type))]
                   ELSE ctx,
                   fobj),
               LAMBDA c1 :
                 IF oid # VNone
                 THEN [ctx |-> add_known_object(
                                   [c1 EXCEPT !.h = PutField(@, fobj, "oid", oid)],
                                   oid, VObj(fobj)),
                       v |-> VObj(fobj)]
                 ELSE [ctx |-> c1, v |-> VObj(fobj)])

\* for _ in xrange(n): F, threading the context
RECURSIVE Repeat(_, _, _)
Repeat(F(_), ctx, n) ==
    Bind(ctx, LAMBDA c : IF n = 0 THEN c ELSE Repeat(F, F(c), n - 1))

\* The body of the field loop of _decode_from_binary for one field
decode_field_from_binary(ctx, a, field) ==
    LET Elem(acc) ==
            Bind(_field_value_from_binary(acc, field, VNone, VNone),
                 LAMBDA r :
                   Bind([r.ctx EXCEPT !.h =
                            PutField(@, a, field.name,
                                     Array__append(r.ctx.h[a].d[field.name], r.v))],
                        LAMBDA c1 :
                          IF field.ref
                          THEN add_unsolved_ref(c1, "array", a, field.name,
                                                Len(c1.h[a].d[field.name].items), r.v)
                          ELSE c1))
        Keyed(acc, kr, old_value) ==
            Bind(_field_value_from_binary([acc EXCEPT !.buf = kr.rb], field, old_value,
                                          IF field.id_map THEN kr.v ELSE VNone),
                 LAMBDA r :
                   Bind([r.ctx EXCEPT !.h =
                            PutField(@, a, field.name,
                                     Map__setitem(r.ctx.h[a].d[field.name], kr.v.v, r.v))],
                        LAMBDA c1 :
                          IF field.ref
                          THEN add_unsolved_ref(c1, "map", a, field.name, kr.v.v, r.v)
                          ELSE c1))
        Entry(acc) ==
            Bind(bin_decoder(acc.buf, "string"),
                 LAMBDA kr :
                   Keyed(acc, kr,
                         IF acc.sync_mode /\ kr.v.v \in DOMAIN acc.h[a].d[field.name].m
                         THEN acc.h[a].d[field.name].m[kr.v.v] ELSE VNone))
        Counted(Each(_), c0) ==
            Bind(decode_head(c0.buf),
                 LAMBDA h0 : Repeat(Each, [c0 EXCEPT !.buf = h0.rb], h0.v))
    IN  IF field.array THEN
            Counted(Elem, [ctx EXCEPT !.h = PutField(@, a, field.name,
                                                     container_class(field))])
        ELSE IF field.map \/ field.id_map THEN
            Counted(Entry,
                    IF ctx.sync_mode /\ ctx.h[a].d[field.name] # VNone THEN ctx
                    ELSE [ctx EXCEPT !.h = PutField(@, a, field.name,
                                                    container_class(field))])
        ELSE
            Bind(_field_value_from_binary(ctx, field,
                                          IF ctx.sync_mode THEN ctx.h[a].d[field.name]
                                          ELSE VNone,
                                          VNone),
                 LAMBDA r :
                   Bind([r.ctx EXCEPT !.h = PutField(@, a, field.name, r.v)],
                        LAMBDA c0 :
                          IF field.ref
                          THEN add_unsolved_ref(c0, "obj_dict", a, field.name,
                                                field.name, r.v)
                          ELSE c0))

\* _decode_from_binary(buf, obj, cls, obj_dict, context) into record a: fields
\* are read until the buffer ends or the terminator index 0 is read
_decode_from_binary(ctx, a) ==
    LET Field_(c, r) ==
            Bind(decode_field_from_binary([c EXCEPT !.buf = r.rb], a,
                                          _fields_by_index(c.h[a].cls, r.v)),
                 LAMBDA c1 :
                   _decode_from_binary(
                       mark_decoded(c1, a, _fields_by_index(c.h[a].cls, r.v)), a))
        Loop(c) ==
            IF is_end(c.buf) THEN c
            ELSE Bind(decode_field_index(c.buf),
                      LAMBDA r : IF r.v = 0 THEN [c EXCEPT !.buf = r.rb] ELSE Field_(c, r))
    IN  Bind(ctx, LAMBDA c : Loop(c))

\* DataModel.unpack_from_binary(data, mode, resolve_ref, mark_change): the
\* heap after the call and the unsolved map (its keys), with the reference
\* slots and the known-objects table of the decode context
unpack_from_binary(h, a, data, mode, resolve_ref_cb, mark_change) ==
    Bind(_decode_from_binary([DecodeContext(h, mode, resolve_ref_cb, a, mark_change)
                                  EXCEPT !.buf = ReadBuffer(data)], a),
         LAMBDA c0 :
           Bind(resolve_ref(c0),
                LAMBDA c1 : [h |-> c1.h, ret |-> c1.unsolved_ref,
                             tmp_unsolved_ref |-> c1.tmp_unsolved_ref,
                             known_objects |-> c1.known_objects]))

----------------------------------------------------------------------------
(* Operations on the source record *)

\* The record of the last operation
Op(op, field, names, ret) == [op |-> op, field |-> field, names |-> names, ret |-> ret]

\* Operations after which a behaviour ends
Final == {"unpack_dict", "unpack_bin", "sync"}

\* A mutation can be applied
CanMutate == steps < MaxSteps /\ last.op \notin Final

\* Coord(x=x) and Coord(oid=oid, x=x)
Coord_x(x) == set_data("Coord", [x |-> VInt(x)])
Coord_oid_x(oid, x) == set_data("Coord", [oid |-> VStr(oid), x |-> VInt(x)])

\* The container stored in a field of the source, None when nothing is stored
Stored(fname) == heap[src].d[fname]
KeysOf(fname) == IF Stored(fname) = VNone THEN {} ELSE DOMAIN Stored(fname).m
LenOf(fname) == IF Stored(fname) = VNone THEN 0 ELSE Len(Stored(fname).items)

\* src.n = v
SetN ==
    \E v \in Vals :
        /\ CanMutate
        /\ heap' = _fset(heap, src, "n", VInt(v))
        /\ last' = Op("set", "n", <<>>, VInt(v))
        /\ steps' = steps + 1
        /\ UNCHANGED <<src, dst>>

\* src.point1 = Coord(x=x), src.s = Coord(x=x)
SetRecord ==
    \E f \in {"point1", "s"}, x \in Vals :
        /\ CanMutate
        /\ heap' = _fset(Alloc(heap, Coord_x(x)), src, f, VObj(NewAddr(heap)))
        /\ last' = Op("set", f, <<>>, VObj(NewAddr(heap)))
        /\ steps' = steps + 1
        /\ UNCHANGED <<src, dst>>

\* src.point1.x = v, src.s.x = v
SetNestedX ==
    \E f \in {"point1", "s"}, v \in Vals :
        /\ CanMutate
        /\ Stored(f) # VNone
        /\ heap' = _fset(heap, Stored(f).v, "x", VInt(v))
        /\ last' = Op("set_nested", f, <<>>, VInt(v))
        /\ steps' = steps + 1
        /\ UNCHANGED <<src, dst>>

\* src.points = [Coord(x=x)]
SetPoints ==
    \E x \in Vals :
        /\ CanMutate
        /\ heap' = _fset_container(Alloc(heap, Coord_x(x)), src, "points",
                                   <<VObj(NewAddr(heap))>>)
        /\ last' = Op("set_container", "points", <<>>, VNone)
        /\ steps' = steps + 1
        /\ UNCHANGED <<src, dst>>

\* src.points.append(Coord(x=x))
PointsAppend ==
    \E x \in Vals :
        /\ CanMutate
        /\ heap' = Array_append(Alloc(heap, Coord_x(x)), src, "points", VObj(NewAddr(heap)))
        /\ last' = Op("append", "points", <<>>, VObj(NewAddr(heap)))
        /\ steps' = steps + 1
        /\ UNCHANGED <<src, dst>>

\* src.points.insert(0, Coord(x=x))
PointsInsert ==
    \E x \in Vals :
        /\ CanMutate
        /\ heap' = Array_insert(Alloc(heap, Coord_x(x)), src, "points", 1,
                                VObj(NewAddr(heap)))
        /\ last' = Op("insert", "points", <<>>, VObj(NewAddr(heap)))
        /\ steps' = steps + 1
        /\ UNCHANGED <<src, dst>>

\* src.points[i] = Coord(x=x)
PointsSetItem ==
    \E i \in 1..LenOf("points"), x \in Vals :
        /\ CanMutate
        /\ heap' = Array_setitem(Alloc(heap, Coord_x(x)), src, "points", i,
                                 VObj(NewAddr(heap)))
        /\ last' = Op("setitem", "points", <<>>, VObj(NewAddr(heap)))
        /\ steps' = steps + 1
        /\ UNCHANGED <<src, dst>>

\* src.points.pop(i)
PointsPop ==
    \E i \in 1..LenOf("points") :
        /\ CanMutate
        /\ heap' = Array_pop(heap, src, "points", i)
        /\ last' = Op("pop", "points", <<>>, Stored("points").items[i])
        /\ steps' = steps + 1
        /\ UNCHANGED <<src, dst>>

\* src.points[i].x = v
PointsElemSetX ==
    \E i \in 1..LenOf("points"), v \in Vals :
        /\ CanMutate
        /\ heap' = _fset(heap, Stored("points").items[i].v, "x", VInt(v))
        /\ last' = Op("set_elem", "points", <<>>, VInt(v))
        /\ steps' = steps + 1
        /\ UNCHANGED <<src, dst>>

\* src.coords[k] = Coord(oid=k, x=x)
CoordsSet ==
    \E key \in Keys, x \in Vals :
        /\ CanMutate
        /\ heap' = Map_setitem(Alloc(heap, Coord_oid_x(key, x)), src, "coords", key,
                               VObj(NewAddr(heap)))
        /\ last' = Op("map_set", "coords", <<key>>, VObj(NewAddr(heap)))
        /\ steps' = steps + 1
        /\ UNCHANGED <<src, dst>>

\* del src.coords[k], del src.refs[k] for a key the map holds
MapDel ==
    \E f \in {"coords", "refs"} :
      \E key \in KeysOf(f) :
        /\ CanMutate
        /\ heap' = Map_delitem(heap, src, f, key)
        /\ last' = Op("map_del", f, <<key>>, VNone)
        /\ steps' = steps + 1
        /\ UNCHANGED <<src, dst>>

\* src.objects.add(Coord(oid=k, x=x))
ObjectsAdd ==
    \E key \in Keys, x \in Vals :
        /\ CanMutate
        /\ heap' = IdMap_add(Alloc(heap, Coord_oid_x(key, x)), src, "objects",
                             VObj(NewAddr(heap)))
        /\ last' = Op("add", "objects", <<key>>, VObj(NewAddr(heap)))
        /\ steps' = steps + 1
        /\ UNCHANGED <<src, dst>>

\* src.objects.remove(src.objects[k])
ObjectsRemove ==
    \E key \in KeysOf("objects") :
        /\ CanMutate
        /\ heap' = IdMap_remove(heap, src, "objects", Stored("objects").m[key])
        /\ last' = Op("remove", "objects", <<key>>, VNone)
        /\ steps' = steps + 1
        /\ UNCHANGED <<src, dst>>

\* src.refs[k] = src.coords[t], src.refs[k] = src.objects[t]
RefsSet ==
    \E owner \in {"coords", "objects"}, key \in Keys :
      \E t \in KeysOf(owner) :
        /\ CanMutate
        /\ heap' = Map_setitem(heap, src, "refs", key, Stored(owner).m[t])
        /\ last' = Op("map_set", "refs", <<key>>, Stored(owner).m[t])
        /\ steps' = steps + 1
        /\ UNCHANGED <<src, dst>>

\* src.coords[k].x = v, src.objects[k].x = v
MapElemSetX ==
    \E f \in {"coords", "objects"}, v \in Vals :
      \E key \in KeysOf(f) :
        /\ CanMutate
        /\ heap' = _fset(heap, Stored(f).m[key].v, "x", VInt(v))
        /\ last' = Op("set_elem", f, <<key>>, VInt(v))
        /\ steps' = steps + 1
        /\ UNCHANGED <<src, dst>>

\* The field names given to set_changed and clear_changed
NameLists == {<<"n">>, <<"point1">>, <<"s">>, <<"n", "point1">>}

\* src.set_changed(*names), src.set_changed()
SetChanged ==
    \E names \in NameLists \cup {<<>>} :
        /\ CanMutate
        /\ heap' = _set_changed(heap, src, names)
        /\ last' = Op("set_changed", "", names, VNone)
        /\ steps' = steps + 1
        /\ UNCHANGED <<src, dst>>

\* src.clear_changed(*names), recursive by default
ClearChangedNames ==
    \E names \in NameLists :
        /\ CanMutate
        /\ heap' = _clear_changed(heap, src, names, TRUE)
        /\ last' = Op("clear_changed", "", names, VNone)
        /\ steps' = steps + 1
        /\ UNCHANGED <<src, dst>>

\* src.clear_changed(), recursive by default
ClearChanged ==
    /\ last.op \notin Final
    /\ ~(last.op = "clear_changed" /\ last.names = <<>>)
    /\ heap' = _clear_changed(heap, src, <<>>, TRUE)
    /\ last' = Op("clear_changed", "", <<>>, VNone)
    /\ UNCHANGED <<src, dst, steps>>

\* src.sk.append(Coord(x=x))
SkAppend ==
    \E x \in Vals :
        /\ CanMutate
        /\ heap' = Array_append(Alloc(heap, Coord_x(x)), src, "sk", VObj(NewAddr(heap)))
        /\ last' = Op("append", "sk", <<>>, VObj(NewAddr(heap)))
        /\ steps' = steps + 1
        /\ UNCHANGED <<src, dst>>

----------------------------------------------------------------------------
(* Change tracking on one record: constructor, setters, set_changed,
   clear_changed *)

\* Scene(point1=Coord(x=0), s=Coord(x=0), n=0) with any of the three
\* arguments left out; the root is object 1
Construct(hasP, hasS, hasN) ==
    LET names == (IF hasP THEN {"point1"} ELSE {}) \cup (IF hasS THEN {"s"} ELSE {})
                 \cup (IF hasN THEN {"n"} ELSE {})
        value(f) == IF f = "point1" THEN VObj(2)
                    ELSE IF f = "s" THEN VObj(IF hasP THEN 3 ELSE 2)
                    ELSE VInt(0)
        init  == Restrict([point1 |-> value("point1"), s |-> value("s"), n |-> value("n")],
                          names)
    IN  <<set_data("Scene", init)>>
        \o (IF hasP THEN <<Coord_x(0)>> ELSE <<>>)
        \o (IF hasS THEN <<Coord_x(0)>> ELSE <<>>)

Init ==
    /\ heap \in {Construct(p, s, n) : p \in BOOLEAN, s \in BOOLEAN, n \in BOOLEAN}
    /\ src = 1
    /\ dst = 0
    /\ last = Op("init", "", <<>>, VNone)
    /\ steps = 0

Next ==
    \/ SetN
    \/ SetRecord
    \/ SetNestedX
    \/ SkAppend
    \/ SetChanged
    \/ ClearChangedNames
    \/ ClearChanged

Spec == Init /\ [][Next]_vars

----------------------------------------------------------------------------
(* Claims on the change tracking of one record *)

\* The scalar fields of Scene that have a setter action, and those of them
\* not declared skip_changed
SetterFields == {"n", "point1", "s"}
TrackedSetterFields == {f \in SetterFields : ~_fields_by_name("Scene", f).skip_changed}

\* The effect the claim ascribes to record.f = v, v being last'.ret; the
\* change is reported by has_changed(f) and has_changed() when `reported`
SetterEffect(f, reported) ==
    IF heap[src].d[f] = last'.ret
    THEN heap'[src] = heap[src]
    ELSE /\ heap'[src].d[f] = last'.ret
         /\ reported => /\ has_changed(heap', src, f, FALSE)
                         /\ _has_changed(heap', src, FALSE)

\* C6 as stated: assigning v to any scalar field f leaves the storage and
\* the change-set alone when the stored value equals v, and otherwise
\* stores v and makes has_changed(f) and has_changed() true.
C6_SetterAnyField ==
    [][\A f \in SetterFields :
          (last'.op = "set" /\ last'.field = f) => SetterEffect(f, TRUE)]_vars

\* C6 amended: assigning v to a scalar field f leaves the storage and the
\* change-set alone when the stored value equals v, and otherwise stores v
\* and, when f is not declared skip_changed, makes has_changed(f) and
\* has_changed() true.
C6_SetterTrackedField ==
    [][\A f \in SetterFields :
          (last'.op = "set" /\ last'.field = f)
              => SetterEffect(f, f \in TrackedSetterFields)]_vars

\* C6 witness: a first assignment to the unset field n has been stored and
\* is reported
C6_Witness ==
    /\ last.op = "set" /\ last.field = "n"
    /\ steps = 1
    /\ heap[src].d["n"] = last.ret
    /\ has_changed(heap, src, "n", FALSE)

\* C7: a record built by the constructor from initial values, nested
\* records among them, is clean until an operation is applied:
\* has_changed() is false and the only_changed pack is {}.
C7_ConstructedClean ==
    last.op = "init" =>
        /\ ~_has_changed(heap, src, FALSE)
        /\ PackChanged(heap, src) = Dict(EmptyFun)

\* C7 witness: a record constructed with a nested record and a number
C7_Witness ==
    /\ last.op = "init"
    /\ heap[src].d["point1"] # VNone
    /\ heap[src].d["n"] # VNone

\* The names in a list of names
NameSet(names) == {names[i] : i \in DOMAIN names}

\* The effect the claim ascribes to set_changed(*names) for the named
\* fields in `marked`
SetChangedEffect(names, marked) ==
    IF names = <<>>
    THEN \A f \in FieldNames("Scene") :
            ~_fields_by_name("Scene", f).skip_changed => has_changed(heap', src, f, FALSE)
    ELSE /\ \A f \in marked : has_changed(heap', src, f, FALSE)
         /\ \A g \in FieldNames("Scene") \ NameSet(names) :
               has_changed(heap', src, g, FALSE) = has_changed(heap, src, g, FALSE)

\* C8 as stated: set_changed(n1..nk) makes has_changed(ni) true for each
\* named field and leaves has_changed(g) as it was for every unnamed g;
\* set_changed() makes has_changed(f) true for every f not skip_changed.
C8_SetChangedAnyName ==
    [][last'.op = "set_changed" => SetChangedEffect(last'.names, NameSet(last'.names))]_vars

\* C8 amended: set_changed(n1..nk) makes has_changed(ni) true for each named
\* field that is not declared skip_changed and leaves has_changed(g) as it
\* was for every unnamed g; set_changed() makes has_changed(f) true for
\* every f not skip_changed.
C8_SetChangedTrackedName ==
    [][last'.op = "set_changed" =>
          SetChangedEffect(last'.names,
              {f \in NameSet(last'.names) : ~_fields_by_name("Scene", f).skip_changed})]_vars

\* C8 witness: set_changed('n', 'point1') on a record on which no other
\* field reports a change
C8_Witness ==
    /\ last.op = "set_changed" /\ last.names = <<"n", "point1">>
    /\ has_changed(heap, src, "n", FALSE)
    /\ has_changed(heap, src, "point1", FALSE)
    /\ ~has_changed(heap, src, "coords", FALSE)

\* C9: clear_changed(name) makes the named field clean and leaves the
\* change-state of every other field of the record as it was, whether the
\* record was dirty field by field or by the wildcard.
C9_ClearNamedKeepsOthers ==
    [][(last'.op = "clear_changed" /\ last'.names # <<>>) =>
          /\ \A f \in NameSet(last'.names) : ~has_changed(heap', src, f, FALSE)
          /\ \A g \in FieldNames("Scene") \ NameSet(last'.names) :
                has_changed(heap', src, g, FALSE) = has_changed(heap, src, g, FALSE)]_vars

\* The fields of Scene declared skip_changed
SkipFields == {f \in FieldNames("Scene") : _fields_by_name("Scene", f).skip_changed}

\* The records a stored field value holds
Held(value) ==
    IF value = VNone THEN {}
    ELSE IF value.k = "obj" THEN {value.v}
    ELSE {Elements(value)[i].v : i \in DOMAIN Elements(value)}

\* C10: for a field declared skip_changed, has_changed(field) is false
\* whatever setters and set_changed calls were made, the field is never in
\* an only_changed pack, and clear_changed leaves the field's change-set
\* entry, its stored value and the records it holds as they were.
C10_SkipChanged ==
    /\ [](\A f \in SkipFields :
             /\ ~has_changed(heap, src, f, FALSE)
             /\ ~has_changed(heap, src, f, TRUE)
             /\ f \notin DOMAIN PackChanged(heap, src).v)
    /\ [][last'.op = "clear_changed" =>
            \A f \in SkipFields :
               LET index == _fields_by_name("Scene", f).index IN
               /\ (index \in heap'[src].chg) = (index \in heap[src].chg)
               /\ heap'[src].d[f] = heap[src].d[f]
               /\ \A a \in Held(heap[src].d[f]) : heap'[a] = heap[a]]_vars

\* C10 witness: after clear_changed() the skip_changed field s still has
\* its change-set entry and its nested record its own
C10_Witness ==
    /\ last.op = "clear_changed" /\ last.names = <<>>
    /\ _fields_by_name("Scene", "s").index \in heap[src].chg
    /\ heap[src].d["s"] # VNone
    /\ heap[heap[src].d["s"].v].chg # {}

----------------------------------------------------------------------------
(* Change tracking on a record graph *)

\* A Scene with one map entry, a reference to it, one id-map entry, one
\* array element and a nested record, built on heap h by the operations of
\* the model; the new Scene is object NewAddr(h):
\*   s = Scene(); s.coords['a'] = Coord(oid='a', x=0); s.refs['a'] = s.coords['a']
\*   s.objects.add(Coord(oid='b', x=0)); s.points.append(Coord(x=0))
\*   s.point1 = Coord(x=0)
Populate(h) ==
    LET r  == NewAddr(h)
        h0 == Alloc(h, set_data("Scene", EmptyFun))
        h1 == Map_setitem(Alloc(h0, Coord_oid_x("a", 0)), r, "coords", "a", VObj(r + 1))
        h2 == Map_setitem(h1, r, "refs", "a", VObj(r + 1))
        h3 == IdMap_add(Alloc(h2, Coord_oid_x("b", 0)), r, "objects", VObj(r + 2))
        h4 == Array_append(Alloc(h3, Coord_x(0)), r, "points", VObj(r + 3))
    IN  _fset(Alloc(h4, Coord_x(0)), r, "point1", VObj(r + 4))

Populated == Populate(<<>>)

\* The graphs a behaviour starts from: Scene(), the populated Scene, and the
\* populated Scene after clear_changed()
Graphs == {<<set_data("Scene", EmptyFun)>>, Populated, _clear_changed(Populated, 1, <<>>, TRUE)}

InitGraph ==
    /\ heap \in Graphs
    /\ src = 1
    /\ dst = 0
    /\ last = Op("init", "", <<>>, VNone)
    /\ steps = 0

\* The mutations of a record graph
Mutate ==
    \/ SetN
    \/ SetRecord
    \/ SetNestedX
    \/ SetPoints
    \/ PointsAppend
    \/ PointsInsert
    \/ PointsSetItem
    \/ PointsPop
    \/ PointsElemSetX
    \/ CoordsSet
    \/ MapDel
    \/ ObjectsAdd
    \/ ObjectsRemove
    \/ RefsSet
    \/ MapElemSetX

NextGraph == Mutate \/ ClearChanged

SpecGraph == InitGraph /\ [][NextGraph]_vars

\* The records held by the fields of record a; with owned, only by the
\* fields that are neither references nor skip_changed
Children(h, a, owned) ==
    UNION {Held(h[a].d[_fields(h[a].cls)[i].name]) :
             i \in {j \in DOMAIN _fields(h[a].cls) :
                      /\ _fields(h[a].cls)[j].is_data_model_type
                      /\ owned => (~_fields(h[a].cls)[j].ref
                                   /\ ~_fields(h[a].cls)[j].skip_changed)}}

\* The records reachable from the records in S
RECURSIVE Reach(_, _, _)
Reach(h, S, owned) ==
    LET N == S \cup UNION {Children(h, a, owned) : a \in S}
    IN  IF N = S THEN S ELSE Reach(h, N, owned)

\* The containers stored in the fields of record a; with owned, only in the
\* fields that are not skip_changed
Containers(h, a, owned) ==
    {h[a].d[_fields(h[a].cls)[i].name] :
       i \in {j \in DOMAIN _fields(h[a].cls) :
                /\ is_container(_fields(h[a].cls)[j])
                /\ h[a].d[_fields(h[a].cls)[j].name] # VNone
                /\ owned => ~_fields(h[a].cls)[j].skip_changed}}

\* No record reachable from the root and no container of such a record
\* reports has_changed()
AllClean(h, root, owned) ==
    \A a \in Reach(h, {root}, owned) :
        /\ ~_has_changed(h, a, FALSE)
        /\ \A c \in Containers(h, a, owned) : ~container_has_changed(h, c, FALSE)

\* clear_changed() on the root was the last operation
Cleared == last.op = "clear_changed" /\ last.names = <<>>

\* C4: after any mutations of a record graph, clear_changed() on the root
\* followed by pack('dict', only_changed=true) gives {}.
C4_DeltaEmptyAfterClear == Cleared => PackChanged(heap, src) = Dict(EmptyFun)

\* C4 witness: clear_changed() after mutations of a graph that has map
\* entries, references and array elements
C4_Witness ==
    /\ Cleared
    /\ steps > 0
    /\ KeysOf("coords") # {} /\ KeysOf("refs") # {} /\ LenOf("points") > 0

\* C5 as stated: after clear_changed() on the root, has_changed() is false
\* for the root and for every record and container reachable from it.
C5_AllReachableClean == Cleared => AllClean(heap, src, FALSE)

\* C5 amended: after clear_changed() on the root, has_changed() is false for
\* the root, for every record reachable from it through fields that are
\* neither references nor skip_changed, and for every container of these
\* records in a field that is not skip_changed.
C5_OwnedReachableClean == Cleared => AllClean(heap, src, TRUE)

\* C5 witness: clear_changed() on a graph whose array was changed and whose
\* owned records are now clean
C5_Witness ==
    /\ Cleared
    /\ steps > 0
    /\ LenOf("points") > 1
    /\ Cardinality(Reach(heap, {src}, TRUE)) > 3

----------------------------------------------------------------------------
(* Round trips: pack, then unpack into a fresh record *)

\* The unsolved map an unpack returns, by its keys
Unsolved(refs) == [k |-> "set", v |-> refs]

\* d = Scene(); unsolved = d.unpack('dict', src.pack('dict'))
UnpackDict ==
    /\ last.op \notin Final
    /\ \E r \in {unpack_from_dict(Alloc(heap, set_data("Scene", EmptyFun)), NewAddr(heap),
                                   PackDict(heap, src), "override", "none", FALSE)} :
           /\ heap' = r.h
           /\ dst' = NewAddr(heap)
           /\ last' = Op("unpack_dict", "", <<>>, Unsolved(r.ret))
    /\ UNCHANGED <<src, steps>>

\* d = Scene(); unsolved = d.unpack('bin', src.pack('bin'))
UnpackBin ==
    /\ last.op \notin Final
    /\ \E r \in {unpack_from_binary(Alloc(heap, set_data("Scene", EmptyFun)),
                                     NewAddr(heap),
                                     pack_to_binary(heap, src, FALSE, FALSE, {}).ret,
                                     "override", "none", FALSE)} :
           /\ heap' = r.h
           /\ dst' = NewAddr(heap)
           /\ last' = Op("unpack_bin", "", <<>>, Unsolved(r.ret))
    /\ UNCHANGED <<src, steps>>

\* Mutations, then a round trip through the dict form
NextRT == Mutate \/ UnpackDict

SpecRT == InitGraph /\ [][NextRT]_vars

\* Mutations, then a round trip through the binary form
NextBin == Mutate \/ UnpackBin

SpecBin == InitGraph /\ [][NextBin]_vars

\* The entries of a map field of record a
EntriesOf(h, a, fname) == IF h[a].d[fname] = VNone THEN EmptyFun ELSE h[a].d[fname].m

\* Every reference of the record graph of root has its target in the graph:
\* the target is a record that a non-reference field of the graph holds
RefsInGraph(h, root) ==
    \A key \in DOMAIN EntriesOf(h, root, "refs") :
        /\ EntriesOf(h, root, "refs")[key].k = "obj"
        /\ EntriesOf(h, root, "refs")[key].v \in Reach(h, {root}, TRUE)

C2_BinaryRoundTrip ==
    (last.op = "unpack_bin" /\ RefsInGraph(heap, src)) =>
        /\ last.ret.v = {}
        /\ RefsInGraph(heap, dst)
        /\ PackDict(heap, dst) = PackDict(heap, src)

----------------------------------------------------------------------------
(* Delta replay: pack the changes of one record, unpack them into its copy *)

\* r1 and r2 = deep copy of r1, both clean: two empty Scenes, or two
\* populated Scenes after clear_changed() on each.  r1 is object 1.
Pairs ==
    {[h |-> <<set_data("Scene", EmptyFun), set_data("Scene", EmptyFun)>>, r2 |-> 2],
     [h |-> _clear_changed(_clear_changed(Populate(Populated), 1, <<>>, TRUE),
                           NewAddr(Populated), <<>>, TRUE),
      r2 |-> NewAddr(Populated)]}

InitSync ==
    /\ \E p \in Pairs : heap = p.h /\ dst = p.r2
    /\ src = 1
    /\ last = Op("init", "", <<>>, VNone)
    /\ steps = 0

\* unsolved = r2.unpack('dict', r1.pack('dict', only_changed=True), mode='sync')
Sync ==
    /\ last.op \notin Final
    /\ \E r \in {unpack_from_dict(heap, dst, PackChanged(heap, src),
                                   "sync", "none", FALSE)} :
           /\ heap' = r.h
           /\ last' = Op("sync", "", <<>>, Unsolved(r.ret))
    /\ UNCHANGED <<src, dst, steps>>

NextSync == Mutate \/ Sync

SpecSync == InitSync /\ [][NextSync]_vars

\* The dict form of a record over the fields that are not skip_changed
PackTracked(h, a) == pack_to_dict(h, a, FALSE, FALSE, SkipFields).ret

\* C3: after any mutations of r1, unpacking r1.pack('dict',
\* only_changed=true) into r2 in sync mode makes r2 equal to r1 (over the
\* fields that change tracking covers).
C3_DeltaReplay ==
    last.op = "sync" => PackTracked(heap, dst) = PackTracked(heap, src)

----------------------------------------------------------------------------
(* Claims on the containers *)

\* The mutating Array operations applied to src.points
ArrayOps == {"append", "insert", "setitem", "pop"}

\* C11: after a mutating Array operation the array's dirty bit is set, the
\* owning record's has_changed() is true, and every record that is an
\* element of the array after the operation reports has_changed().
C11_ArrayMutationMarks ==
    (last.op \in ArrayOps /\ last.field = "points") =>
        /\ Stored("points").changed
        /\ _has_changed(heap, src, FALSE)
        /\ \A i \in 1..LenOf("points") :
               Stored("points").items[i].k = "obj" =>
                   _has_changed(heap, Stored("points").items[i].v, FALSE)

\* The map and id-map fields of a Scene
MapFields == {"coords", "refs", "objects"}

\* The tombstones of field f of record a: the keys in _removed
Removed(h, a, f) == IF h[a].d[f] = VNone THEN {} ELSE h[a].d[f].removed

\* The keys held by the container of field f of record a
Held_keys(h, a, f) == IF h[a].d[f] = VNone THEN {} ELSE DOMAIN h[a].d[f].m

\* delta[f][k] is None
Tombstone(delta, f, k) ==
    /\ f \in DOMAIN delta.v
    /\ k \in DOMAIN delta.v[f].v
    /\ delta.v[f].v[k] = VNone

\* The steps of a tombstone from the deletion to the destination
TombstoneStep ==
    /\ (last'.op \in {"map_del", "remove"}) =>
           last'.names[1] \in Removed(heap', src, last'.field)
    /\ (last'.op # "sync") =>
           \A f \in MapFields : Removed(heap, src, f) \subseteq Removed(heap', src, f)
    /\ (last'.op = "sync") =>
           Bind(PackChanged(heap, src),
                LAMBDA delta :
                  \A f \in MapFields : \A k \in Removed(heap, src, f) :
                      /\ Tombstone(delta, f, k)
                      /\ k \notin Held_keys(heap', dst, f))

----------------------------------------------------------------------------
(* Id-maps *)

\* src.objects[k] = Coord(oid=o, x=0): Map.__setitem__, which IdMap inherits
ObjectsSetItem ==
    \E key \in Keys, oid \in Keys :
        /\ CanMutate
        /\ heap' = Map_setitem(Alloc(heap, Coord_oid_x(oid, 0)), src, "objects", key,
                               VObj(NewAddr(heap)))
        /\ last' = Op("setitem", "objects", <<key>>, VObj(NewAddr(heap)))
        /\ steps' = steps + 1
        /\ UNCHANGED <<src, dst>>

\* add, remove and item assignment on the id-map of r1, then one unpack:
\* dict or binary into a new Scene, or the delta into r2 in sync mode
NextIdMap ==
    \/ ObjectsAdd
    \/ ObjectsRemove
    \/ ObjectsSetItem
    \/ UnpackDict
    \/ UnpackBin
    \/ Sync

SpecIdMap == InitSync /\ [][NextIdMap]_vars

\* Every entry (k, v) of the id-map of Scene a has v.oid == k
IdMapKeyed(h, a) ==
    \A k \in Held_keys(h, a, "objects") : oid_of(h, h[a].d["objects"].m[k]) = VStr(k)

\* C13: in every reachable state, every entry (k, v) of every id-map has
\* v.oid == k.
C13_IdMapInvariant ==
    \A a \in DOMAIN heap : heap[a].cls = "Scene" => IdMapKeyed(heap, a)

----------------------------------------------------------------------------
(* Id-map entries that hold nested records *)

\* w = World(): the root is object 1
InitWorld ==
    /\ heap = <<set_data("World", EmptyFun)>>
    /\ src = 1
    /\ dst = 0
    /\ last = Op("init", "", <<>>, VNone)
    /\ steps = 0

\* w.entities.add(Entity(oid=k, pos=Coord(oid=o, x=x)))
EntityAdd ==
    \E key \in Keys, o \in Keys, x \in Vals :
        /\ CanMutate
        /\ heap' = IdMap_add(Alloc(Alloc(heap, Coord_oid_x(o, x)),
                                   set_data("Entity", [oid |-> VStr(key),
                                                       pos |-> VObj(NewAddr(heap))])),
                             src, "entities", VObj(NewAddr(heap) + 1))
        /\ last' = Op("add", "entities", <<key>>, VObj(NewAddr(heap) + 1))
        /\ steps' = steps + 1
        /\ UNCHANGED <<src, dst>>

\* w.entities.remove(w.entities[k])
EntityRemove ==
    \E key \in KeysOf("entities") :
        /\ CanMutate
        /\ heap' = IdMap_remove(heap, src, "entities", Stored("entities").m[key])
        /\ last' = Op("remove", "entities", <<key>>, VNone)
        /\ steps' = steps + 1
        /\ UNCHANGED <<src, dst>>

\* w.entities[k].pos.x = v
EntityPosSetX ==
    \E key \in KeysOf("entities"), v \in Vals :
        /\ CanMutate
        /\ heap' = _fset(heap, heap[Stored("entities").m[key].v].d["pos"].v, "x", VInt(v))
        /\ last' = Op("set_nested", "entities", <<key>>, VInt(v))
        /\ steps' = steps + 1
        /\ UNCHANGED <<src, dst>>

\* w.pack('dict')
WorldPack ==
    /\ last.op # "pack"
    /\ last' = Op("pack", "entities", <<>>, PackDict(heap, src))
    /\ UNCHANGED <<heap, src, dst, steps>>

NextWorld == EntityAdd \/ EntityRemove \/ EntityPosSetX \/ WorldPack

SpecWorld == InitWorld /\ [][NextWorld]_vars

\* C14: in the dict form of an id-map every entry is keyed by its oid, and
\* its payload is the dict form of the entry without the entry's own oid:
\* every other stored field, the records nested in the entry complete with
\* their own oid fields.
C14_IdMapPayload ==
    last.op = "pack" =>
        \A key \in KeysOf("entities") :
            /\ key \in DOMAIN last.ret.v["entities"].v
            /\ last.ret.v["entities"].v[key]
                   = Dict(DelKey(PackDict(heap, Stored("entities").m[key].v).v, "oid"))

----------------------------------------------------------------------------
(* References *)

\* unsolved = r2.unpack('dict', r1.pack('dict', only_changed=True),
\*                      mode='sync', resolve_ref=r2.resolve_ref)
SyncResolve ==
    /\ last.op \notin Final
    /\ \E r \in {unpack_from_dict(heap, dst, PackChanged(heap, src),
                                   "sync", "coords", FALSE)} :
           /\ heap' = r.h
           /\ last' = Op("sync", "resolve_ref", <<>>, Unsolved(r.ret))
    /\ UNCHANGED <<src, dst, steps>>

NextRef == Mutate \/ SyncResolve

SpecRef == InitSync /\ [][NextRef]_vars

\* Every reference of record a names, by the oid of its target, an entry of
\* the owning map coords of record b
TargetsIn(h, a, b) ==
    \A key \in Held_keys(h, a, "refs") :
        /\ oid_of(h, h[a].d["refs"].m[key]).k = "str"
        /\ oid_of(h, h[a].d["refs"].m[key]).v \in Held_keys(h, b, "coords")

\* Every reference slot of record a is the very record that an entry of
\* a.coords holds
SlotsAreEntries(h, a) ==
    \A key \in Held_keys(h, a, "refs") :
        \E t \in Held_keys(h, a, "coords") : h[a].d["refs"].m[key] = h[a].d["coords"].m[t]

\* C15: when the source has changed its references and each of them
\* targets an entity that the destination's owning map holds, the sync
\* unpack of the only_changed dict with the destination's resolve_ref
\* returns an empty unsolved map and leaves in every reference slot of the
\* destination the very object that the destination's owning map holds.
C15_RefIdentityThroughSync ==
    (/\ last.op = "sync" /\ last.field = "resolve_ref"
     /\ Stored("refs") # VNone /\ Stored("refs").changed
     /\ TargetsIn(heap, src, dst)) =>
        /\ last.ret.v = {}
        /\ SlotsAreEntries(heap, dst)

\* The source has added refs['b'] = coords['a'], and after the sync the
\* destination's refs['b'] is the destination's coords['a']
C15_Witness ==
    /\ last.op = "sync" /\ last.field = "resolve_ref"
    /\ dst = NewAddr(Populated)
    /\ "b" \in KeysOf("refs") /\ Stored("refs").m["b"] = Stored("coords").m["a"]
    /\ TargetsIn(heap, src, dst)
    /\ last.ret.v = {}
    /\ "b" \in Held_keys(heap, dst, "refs")
    /\ heap[dst].d["refs"].m["b"] = heap[dst].d["coords"].m["a"]

\* The ways of an unpack: the full dict into a new Scene in override mode,
\* or the only_changed dict into r2 in sync mode; with or without r2's
\* resolve_ref callback
UnpackRefs ==
    /\ last.op \notin Final
    /\ \E mode \in {"override", "sync"}, cb \in {"none", "coords"} :
         \E r \in {IF mode = "sync"
                   THEN unpack_from_dict(heap, dst, PackChanged(heap, src), mode, cb, FALSE)
                   ELSE unpack_from_dict(Alloc(heap, set_data("Scene", EmptyFun)),
                                         NewAddr(heap), PackDict(heap, src), mode, cb,
                                         FALSE)} :
           /\ heap' = r.h
           /\ dst' = IF mode = "sync" THEN dst ELSE NewAddr(heap)
           /\ last' = Op("unpack_dict", cb, <<mode>>,
                         [k |-> "unsolved", v |-> r.ret,
                          tmp_unsolved_ref |-> r.tmp_unsolved_ref,
                          known_objects |-> r.known_objects])
    /\ UNCHANGED <<src, steps>>

\* The mutations that change what the references of r1 can resolve to
NextUnsolved == CoordsSet \/ MapDel \/ ObjectsAdd \/ RefsSet \/ UnpackRefs

SpecUnsolved == InitSync /\ [][NextUnsolved]_vars

\* What the lookup of oid yields after an unpack into record a: the
\* callback a.coords.get(oid) when one was supplied, otherwise
\* known_objects.get(oid)
Lookup(h, a, cb, known_objects, oid) ==
    IF cb = "coords"
    THEN IF oid.k = "str" /\ oid.v \in Held_keys(h, a, "coords")
         THEN h[a].d["coords"].m[oid.v] ELSE VNone
    ELSE IF oid \in DOMAIN known_objects THEN known_objects[oid] ELSE VNone

\* The content of a reference slot (kind, container, key) of a map
Slot(h, t) == h[t.a].d[t.fname].m[t.key]

\* C16: an unpack returns its unsolved map whatever its references are,
\* and after it every decoded reference slot with oid o holds the record
\* the lookup yields for o, or, when the lookup yields none, still holds o,
\* and then o is a key of the returned unsolved map.
C16_UnresolvedRefs ==
    last.op = "unpack_dict" =>
      /\ last.ret.k = "unsolved"
      /\ \A i \in DOMAIN last.ret.tmp_unsolved_ref :
              LET t   == last.ret.tmp_unsolved_ref[i]
                  obj == Lookup(heap, dst, last.field, last.ret.known_objects, t.v)
              IN  IF obj # VNone
                  THEN Slot(heap, t) = obj
                  ELSE Slot(heap, t) = t.v /\ t.v \in last.ret.v

\* An unpack that has left one reference resolved and another one
\* unresolved, its oid in the unsolved map
C16_Witness ==
    /\ last.op = "unpack_dict"
    /\ \E i, j \in DOMAIN last.ret.tmp_unsolved_ref :
          /\ Slot(heap, last.ret.tmp_unsolved_ref[i]).k = "obj"
          /\ Slot(heap, last.ret.tmp_unsolved_ref[j]).k = "str"
          /\ Slot(heap, last.ret.tmp_unsolved_ref[j]) \in last.ret.v

----------------------------------------------------------------------------
(* References into an id-map of the same document *)

\* The reference fields of a Doc: one before and one after the id-map in
\* field order
DocRefs == {"before", "after"}

\* d = Doc(); d.objects.add(Coord(oid='a', x=0));
\* d.before['a'] = d.objects['a']; d.after['b'] = d.objects['a']
DocPopulated ==
    LET h0 == <<set_data("Doc", EmptyFun)>>
        h1 == IdMap_add(Alloc(h0, Coord_oid_x("a", 0)), 1, "objects", VObj(2))
        h2 == Map_setitem(h1, 1, "before", "a", VObj(2))
    IN  Map_setitem(h2, 1, "after", "b", VObj(2))

InitDoc ==
    /\ heap \in {<<set_data("Doc", EmptyFun)>>, DocPopulated}
    /\ src = 1
    /\ dst = 0
    /\ last = Op("init", "", <<>>, VNone)
    /\ steps = 0

\* d.before[k] = d.objects[t], d.after[k] = d.objects[t]
DocRefSet ==
    \E f \in DocRefs, key \in Keys :
      \E t \in KeysOf("objects") :
        /\ CanMutate
        /\ heap' = Map_setitem(heap, src, f, key, Stored("objects").m[t])
        /\ last' = Op("map_set", f, <<key>>, Stored("objects").m[t])
        /\ steps' = steps + 1
        /\ UNCHANGED <<src, dst>>

\* e = Doc(); unsolved = e.unpack(fmt, d.pack(fmt)) for fmt 'dict' and 'bin'
DocUnpack ==
    /\ last.op \notin Final
    /\ \E fmt \in {"dict", "bin"} :
         \E r \in {IF fmt = "dict"
                   THEN unpack_from_dict(Alloc(heap, set_data("Doc", EmptyFun)),
                                         NewAddr(heap), PackDict(heap, src),
                                         "override", "none", FALSE)
                   ELSE unpack_from_binary(Alloc(heap, set_data("Doc", EmptyFun)),
                                           NewAddr(heap),
                                           pack_to_binary(heap, src, FALSE, FALSE, {}).ret,
                                           "override", "none", FALSE)} :
           /\ heap' = r.h
           /\ dst' = NewAddr(heap)
           /\ last' = Op(IF fmt = "dict" THEN "unpack_dict" ELSE "unpack_bin", "", <<>>,
                         Unsolved(r.ret))
    /\ UNCHANGED <<src, steps>>

NextDoc == ObjectsAdd \/ ObjectsRemove \/ DocRefSet \/ DocUnpack

SpecDoc == InitDoc /\ [][NextDoc]_vars

\* Every reference of Doc a targets, by its oid, an entry of a.objects
DocRefsInIdMap(h, a) ==
    \A f \in DocRefs : \A key \in Held_keys(h, a, f) :
        /\ oid_of(h, h[a].d[f].m[key]).k = "str"
        /\ oid_of(h, h[a].d[f].m[key]).v \in Held_keys(h, a, "objects")

\* C17: when every reference of a document targets an entry of the id-map
\* of the same document, decoding it with no resolve_ref returns an empty
\* unsolved map, and every reference slot of the decoded record, in the
\* field before the id-map as in the field after it, holds the decoded
\* id-map entry of that oid.
C17_IntraDocumentRefs ==
    (last.op \in Final /\ DocRefsInIdMap(heap, src)) =>
        /\ last.ret.v = {}
        /\ \A f \in DocRefs :
             /\ Held_keys(heap, dst, f) = Held_keys(heap, src, f)
             /\ \A key \in Held_keys(heap, src, f) :
                    heap[dst].d[f].m[key]
                        = heap[dst].d["objects"].m[oid_of(heap, heap[src].d[f].m[key]).v]

\* A decoded document with a reference before and a reference after the
\* id-map, both holding decoded entries
C17_Witness ==
    /\ last.op \in Final
    /\ DocRefsInIdMap(heap, src)
    /\ \A f \in DocRefs :
          \E key \in Held_keys(heap, dst, f) :
              \E t \in Held_keys(heap, dst, "objects") :
                  heap[dst].d[f].m[key] = heap[dst].d["objects"].m[t]

----------------------------------------------------------------------------
(* Arithmetic helpers *)

\* The largest value encode_uint16 can write ('!H')
UINT16_MAX == 65535

\* The result of a helper: the tuple it returns, or the error it raises
Returned(h, delta, new_value) == [h |-> h, ret |-> [k |-> "tuple", v |-> <<delta, new_value>>]]
Raised(h) == [h |-> h, ret |-> [k |-> "raise"]]

\* getattr(self, key, 0): the stored value, 0 when nothing is stored
getattr_0(h, a, name) == IF h[a].d[name] # VNone THEN h[a].d[name].v ELSE 0

\* _add_func(self, name, key, value); setattr goes through the setter
_add_func(h, a, name, value) ==
    LET old_value == getattr_0(h, a, name)
        new_value == old_value + value
    IN  Returned(_fset(h, a, name, VInt(new_value)), value, new_value)

\* _sub_func_with_min_value(self, name, key, min_value, value)
_sub_func_with_min_value(h, a, name, min_value, value) ==
    LET old_value == getattr_0(h, a, name)
        new_value == old_value - value
    IN  IF new_value < min_value THEN Raised(h)
        ELSE Returned(_fset(h, a, name, VInt(new_value)), old_value - new_value, new_value)

\* _signed_sub_func(self, name, key, value)
_signed_sub_func(h, a, name, value) ==
    LET old_value == getattr_0(h, a, name)
        new_value == old_value - value
    IN  Returned(_fset(h, a, name, VInt(new_value)), value, new_value)

\* sub_<name> as MetaDataModel.__new__ generates it: with the declared
\* min_value, with 0 for an unsigned type, unchecked otherwise
sub_func(h, a, field, value) ==
    IF field.min_value # VNone
    THEN _sub_func_with_min_value(h, a, field.name, field.min_value.v, value)
    ELSE IF is_unsigned(field)
    THEN _sub_func_with_min_value(h, a, field.name, 0, value)
    ELSE _signed_sub_func(h, a, field.name, value)

\* The values assigned to the fields of a Point and the arguments of its
\* helpers
SetVals == Vals \cup {UINT16_MAX}
ArgVals == 1..(MaxVal + 1)

\* p = Point(): the root is object 1
InitPoint ==
    /\ heap = <<set_data("Point", EmptyFun)>>
    /\ src = 1
    /\ dst = 0
    /\ last = Op("init", "", <<>>, VNone)
    /\ steps = 0

\* p.f = v
PointSet ==
    \E f \in FieldNames("Point"), v \in SetVals :
        /\ CanMutate
        /\ heap' = _fset(heap, src, f, VInt(v))
        /\ last' = Op("set", f, <<v>>, VInt(v))
        /\ steps' = steps + 1
        /\ UNCHANGED <<src, dst>>

\* p.add_f(v)
PointAdd ==
    \E f \in FieldNames("Point"), v \in ArgVals :
      \E r \in {_add_func(heap, src, f, v)} :
        /\ CanMutate
        /\ heap' = r.h
        /\ last' = Op("add", f, <<v>>, r.ret)
        /\ steps' = steps + 1
        /\ UNCHANGED <<src, dst>>

\* p.sub_f(v)
PointSub ==
    \E f \in FieldNames("Point"), v \in ArgVals :
      \E r \in {sub_func(heap, src, _fields_by_name("Point", f), v)} :
        /\ CanMutate
        /\ heap' = r.h
        /\ last' = Op("sub", f, <<v>>, r.ret)
        /\ steps' = steps + 1
        /\ UNCHANGED <<src, dst>>

NextPoint == PointSet \/ PointAdd \/ PointSub

SpecPoint == InitPoint /\ [][NextPoint]_vars

\* The lower bound of sub_<field>: min_value when declared, 0 for an
\* unsigned field without min_value; a signed field without min_value has
\* none
HasLowerBound(field) == field.min_value # VNone \/ is_unsigned(field)
LowerBound(field) == IF field.min_value # VNone THEN field.min_value.v ELSE 0

\* What sub_f(v) does from the current value of f, the one the getter reads
SubEffect(f, v) ==
    LET field   == _fields_by_name("Point", f)
        current == _fget(heap, src, f).v
    IN  /\ last'.ret.k = "raise" <=> (HasLowerBound(field) /\ current - v < LowerBound(field))
        /\ last'.ret.k = "raise" => heap'[src] = heap[src]
        /\ last'.ret.k # "raise" => _fget(heap', src, f).v = current - v

\* C18: sub_<field>(v) raises iff current - v is below the field's lower
\* bound; when it raises, the stored value and the change-set are
\* unchanged, and when it does not raise the field holds current - v.
C18_SubLowerBound ==
    [][last'.op = "sub" => SubEffect(last'.field, last'.names[1])]_vars

\* What a helper that has not raised returns from old, the value the getter
\* of f read before the call: (v, old + v) for add, (v, old - v) for sub,
\* and the getter then reads the second component
HelperResult(f, v) ==
    LET old == _fget(heap, src, f).v
        new == IF last'.op = "add" THEN old + v ELSE old - v
    IN  /\ last'.ret.v = <<v, new>>
        /\ _fget(heap', src, f).v = last'.ret.v[2]

\* C19: add_<field>(v) returns (v, old + v) and a sub_<field>(v) that does
\* not raise returns (v, old - v), old being what the getter returned
\* before the call (the declared default when nothing is stored); after
\* the call the getter returns the second component.
C19_HelperResult ==
    [][(last'.op \in {"add", "sub"} /\ last'.ret.k = "tuple")
           => HelperResult(last'.field, last'.names[1])]_vars

\* C20: add_<field>(v) on an unsigned arithmetic field never leaves a
\* stored value above the largest value of the field's width.  The helper
\* is the same for every integer type; the field w has the width 16.
C20_AddWithinWidth ==
    [][(last'.op = "add" /\ last'.field = "w") => heap'[src].d["w"].v <= UINT16_MAX]_vars

----------------------------------------------------------------------------
(* Type definition *)

\* In this part the heap holds class objects, addressed by position:
\*   [cls |-> "type", __name__, __bases__ (addresses; <<>> for a direct
\*    subclass of DataModel), _fields, _fields_by_index, _fields_by_name,
\*    attrs (the generated properties and helpers)]
\* A field object is [name, index, type_name, arithm, class_name,
\* define_in_class]; define_in_class is the address of a class, 0 for None.

\* The outcome of a statement that raises
Raise(error) == [raise |-> error]

\* name = Field(typ, index, arithm=...) in a class body, typ the name of a
\* primitive type
Field_init(name, typ, index, arithm) ==
    IF index <= 0 \/ index > 2 ^ 16
    THEN Raise("DefineError")
    ELSE [raise |-> "", name |-> name, index |-> index, type_name |-> typ,
          arithm |-> arithm, class_name |-> "", define_in_class |-> 0]

\* FieldsDefine()
FieldsDefine ==
    [raise |-> "", __name__ |-> "", _fields |-> <<>>,
     _fields_by_index |-> EmptyFun, _fields_by_name |-> EmptyFun]

\* The two tests of copy_class_fields on a field the definition holds (mine)
\* and the field of cls under the same index or name (theirs)
declared_elsewhere(mine, theirs, cls) ==
    /\ mine.class_name # cls.__name__
    /\ mine.define_in_class # theirs.define_in_class

\* FieldsDefine.copy_class_fields(cls)
copy_class_fields(self, cls) ==
    IF \E index \in DOMAIN cls._fields_by_index :
           /\ index \in DOMAIN self._fields_by_index
           /\ declared_elsewhere(self._fields_by_index[index],
                                 cls._fields_by_index[index], cls)
    THEN Raise("DuplicateIndexError")
    ELSE IF \E name \in DOMAIN cls._fields_by_name :
           /\ name \in DOMAIN self._fields_by_name
           /\ declared_elsewhere(self._fields_by_name[name],
                                 cls._fields_by_name[name], cls)
    THEN Raise("DuplicateNameError")
    ELSE [self EXCEPT
             !._fields = self._fields \o cls._fields,
             !._fields_by_index = cls._fields_by_index @@ self._fields_by_index,
             !._fields_by_name = cls._fields_by_name @@ self._fields_by_name]

\* FieldsDefine.copy_bases_fields(bases); DataModel and object hold no
\* _fields_by_index, so the walk ends at a direct subclass of DataModel
RECURSIVE copy_bases_fields(_, _, _)
copy_bases_fields(h, self, bases) ==
    IF self.raise # "" \/ bases = <<>> THEN self
    ELSE Bind(copy_class_fields(self, h[Head(bases)]),
              LAMBDA s1 :
                Bind(IF s1.raise # "" THEN s1
                     ELSE copy_bases_fields(h, s1, h[Head(bases)].__bases__),
                     LAMBDA s2 : copy_bases_fields(h, s2, Tail(bases))))

\* FieldsDefine.set_define_in_class(cls), on one field; the field objects
\* are shared by _fields and the two indexes, so each holds the update
set_define_in_class(field, cls) ==
    IF field.define_in_class = 0 THEN [field EXCEPT !.define_in_class = cls] ELSE field

RECURSIVE index_set_define_in_class(_, _, _)
index_set_define_in_class(by, S, cls) ==
    IF S = {} THEN EmptyFun
    ELSE LET x == CHOOSE y \in S : TRUE
         IN  (x :> set_define_in_class(by[x], cls))
                 @@ index_set_define_in_class(by, S \ {x}, cls)

\* list.sort by index: a stable insertion sort
RECURSIVE sort_by_index(_)
sort_by_index(fields) ==
    IF fields = <<>> THEN <<>>
    ELSE LET rest == sort_by_index(Tail(fields))
             before == SelectSeq(rest, LAMBDA f : f.index < Head(fields).index)
             after == SelectSeq(rest, LAMBDA f : f.index >= Head(fields).index)
         IN  before \o <<Head(fields)>> \o after

\* The attributes the metaclass generates for a field: the property, the
\* getter and, for an arithmetic field, the two helpers
generated(field) ==
    {<<"property", field.name>>, <<"get", field.name>>}
        \cup (IF field.arithm THEN {<<"add", field.name>>, <<"sub", field.name>>} ELSE {})

\* The loop of MetaDataModel.__new__ over the field objects of the class
\* body, in the order the body's dict yields them: this_fields_define and
\* the generated attributes
this_class_fields(clsname, body) ==
    LET Step(acc, f) ==
            LET field == [f EXCEPT !.class_name = clsname]
            IN  [define |-> [acc.define EXCEPT
                                !.__name__ = clsname,
                                !._fields = Append(acc.define._fields, field),
                                !._fields_by_index =
                                    SetKey(acc.define._fields_by_index, field.index, field),
                                !._fields_by_name =
                                    SetKey(acc.define._fields_by_name, field.name, field)],
                 attrs |-> acc.attrs \cup generated(field)]
    IN  FoldSeq(Step, [define |-> FieldsDefine, attrs |-> {}], body)

\* MetaDataModel.__new__(mcs, clsname, bases, _attrs), _attrs holding the
\* field objects of the class body: the class object, or the error raised
MetaDataModel_new(h, clsname, bases, body) ==
    Bind(copy_bases_fields(h, FieldsDefine, bases),
         LAMBDA bases_define :
           IF bases_define.raise # "" THEN bases_define
           ELSE Bind(this_class_fields(clsname, body),
                     LAMBDA this :
                       Bind(copy_class_fields(bases_define, this.define),
                            LAMBDA fields_define :
                              IF fields_define.raise # "" THEN fields_define
                              ELSE [raise |-> "", cls |-> "type",
                                    __name__ |-> clsname, __bases__ |-> bases,
                                    _fields |-> sort_by_index(
                                        FoldSeq(LAMBDA acc, f :
                                                  Append(acc, set_define_in_class(f, NewAddr(h))),
                                                <<>>, fields_define._fields)),
                                    _fields_by_index |->
                                        index_set_define_in_class(
                                            fields_define._fields_by_index,
                                            DOMAIN fields_define._fields_by_index,
                                            NewAddr(h)),
                                    _fields_by_name |->
                                        index_set_define_in_class(
                                            fields_define._fields_by_name,
                                            DOMAIN fields_define._fields_by_name,
                                            NewAddr(h)),
                                    attrs |-> this.attrs])))

\* The method resolution order type.__new__ computes for a class with these
\* bases (C3 linearization), as a sequence of addresses; it ends with -1
\* when the bases have no consistent order and type.__new__ raises
RECURSIVE c3_merge(_)
c3_merge(lists) ==
    LET left == SelectSeq(lists, LAMBDA l : l # <<>>)
        in_tail(c) == \E j \in DOMAIN left : \E n \in 2..Len(left[j]) : left[j][n] = c
        heads == {i \in DOMAIN left : ~in_tail(Head(left[i]))}
    IN  IF left = <<>> THEN <<>>
        ELSE IF heads = {} THEN <<-1>>
        ELSE LET c == Head(left[CHOOSE i \in heads : \A j \in heads : i <= j])
                 drop(acc, l) == Append(acc, SelectSeq(l, LAMBDA x : x # c))
             IN  <<c>> \o c3_merge(FoldSeq(drop, <<>>, left))

RECURSIVE mro(_, _)
mro(h, bases) ==
    c3_merge(FoldSeq(LAMBDA acc, b : Append(acc, <<b>> \o mro(h, h[b].__bases__)),
                     <<>>, bases) \o <<bases>>)

has_mro(h, bases) == -1 \notin {mro(h, bases)[i] : i \in DOMAIN mro(h, bases)}

\* The class statement `class clsname(bases): decls`: the body is evaluated
\* (Field.__init__ for every declaration), then the metaclass is called and
\* the class object is bound.  [h, ret]: the classes afterwards and the
\* outcome, ret.a the address of the new class
class_statement(h, clsname, bases, decls) ==
    LET init(acc, d) == Append(acc, Field_init(d.name, d.typ, d.index, d.arithm))
        body == FoldSeq(init, <<>>, decls)
    IN  IF \E i \in DOMAIN body : body[i].raise # ""
        THEN [h |-> h, ret |-> [raise |-> "DefineError", decls |-> decls, a |-> 0]]
        ELSE Bind(MetaDataModel_new(h, clsname, bases, body),
                  LAMBDA newcls :
                    IF newcls.raise # ""
                    THEN [h |-> h, ret |-> [raise |-> newcls.raise, decls |-> decls, a |-> 0]]
                    ELSE [h |-> Alloc(h, newcls),
                          ret |-> [raise |-> "", decls |-> decls, a |-> NewAddr(h)]])

\* The classes after a class statement that raises nothing
Defined(h, clsname, bases, decls) == class_statement(h, clsname, bases, decls).h

\* The declaration name = Field(typ, index, arithm=arithm)
Decl(name, typ, index, arithm) ==
    [name |-> name, typ |-> typ, index |-> index, arithm |-> arithm]

\* The class names, and the declarations of a class body: two names, two
\* indices, numeric and string fields with and without helpers, and the
\* indices around the two ends of the accepted range
ClassNames == {"PointX", "PointA"}
EdgeIndexes == {-1, 0, UINT16_MAX, UINT16_MAX + 1, UINT16_MAX + 2}
Decls ==
    {Decl(name, kind[1], index, kind[2]) :
        name \in {"x", "y"}, index \in {1, 2},
        kind \in {<<"int32", FALSE>>, <<"int32", TRUE>>, <<"string", TRUE>>}}
    \cup {Decl("x", "int32", index, FALSE) : index \in EdgeIndexes}
Bodies == {<<>>} \cup {<<d>> : d \in Decls}

\* The lists of one or two distinct bases that have a method resolution order
BaseLists(h) ==
    {bases \in {<<b>> : b \in DOMAIN h} \cup {<<b, c>> : b, c \in DOMAIN h} :
        /\ \A i, j \in DOMAIN bases : i # j => bases[i] # bases[j]
        /\ has_mro(h, bases)}

\* test_inherit: class PointX(DataModel): x = Field('int32', 1)
\*               class PointY(PointX): pass
Chain ==
    Defined(Defined(<<>>, "PointX", <<>>, <<Decl("x", "int32", 1, FALSE)>>),
            "PointY", <<1>>, <<>>)

\* class PointX(DataModel): x = Field('int32', 1)
\* class PointY(PointX): y = Field('int32', 2)
\* class PointZ(PointX): pass
Diamond ==
    Defined(Defined(Defined(<<>>, "PointX", <<>>, <<Decl("x", "int32", 1, FALSE)>>),
                    "PointY", <<1>>, <<Decl("y", "int32", 2, FALSE)>>),
            "PointZ", <<1>>, <<>>)

\* No class, or the classes of test_inherit, or the base of a diamond
InitDefine ==
    /\ heap \in {<<>>, Chain, Diamond}
    /\ src = 0
    /\ dst = 0
    /\ last = Op("init", "", <<>>, VNone)
    /\ steps = 0

\* class clsname(DataModel): decls
DefineModel ==
    /\ steps < MaxSteps
    /\ \E clsname \in ClassNames, decls \in Bodies :
      \E r \in {class_statement(heap, clsname, <<>>, decls)} :
        /\ heap' = r.h
        /\ last' = Op("class", clsname, <<>>, r.ret)
        /\ steps' = steps + 1
        /\ UNCHANGED <<src, dst>>

\* class clsname(bases): decls
DefineSubclass ==
    /\ steps < MaxSteps
    /\ \E clsname \in ClassNames, bases \in BaseLists(heap), decls \in Bodies :
      \E r \in {class_statement(heap, clsname, bases, decls)} :
        /\ heap' = r.h
        /\ last' = Op("class", clsname, bases, r.ret)
        /\ steps' = steps + 1
        /\ UNCHANGED <<src, dst>>

NextDefine == DefineModel \/ DefineSubclass

SpecDefine == InitDefine /\ [][NextDefine]_vars

\* The classes a class with these bases inherits from, and the fields they
\* declare: a field reached through several bases is one field
Ancestors(h, bases) == {mro(h, bases)[i] : i \in DOMAIN mro(h, bases)}
Inherited(h, bases) ==
    UNION {{h[c]._fields[i] : i \in {j \in DOMAIN h[c]._fields :
                                        h[c]._fields[j].define_in_class = c}} :
           c \in Ancestors(h, bases)}

\* A declared field takes the index (name) of an inherited one, or two
\* inherited fields declared in different classes share an index (name)
IndexClash(inherited, decls) ==
    \/ \E i \in DOMAIN decls : \E f \in inherited : decls[i].index = f.index
    \/ \E f, g \in inherited : f # g /\ f.index = g.index
NameClash(inherited, decls) ==
    \/ \E i \in DOMAIN decls : \E f \in inherited : decls[i].name = f.name
    \/ \E f, g \in inherited : f # g /\ f.name = g.name

DuplicateStep ==
    (last'.op = "class" /\ last'.ret.raise # "DefineError") =>
        Bind(Inherited(heap, last'.names),
             LAMBDA inherited :
               /\ (last'.ret.raise = "DuplicateIndexError")
                      => IndexClash(inherited, last'.ret.decls)
               /\ (last'.ret.raise = "DuplicateNameError")
                      => NameClash(inherited, last'.ret.decls)
               /\ (IndexClash(inherited, last'.ret.decls)
                      \/ NameClash(inherited, last'.ret.decls))
                      => last'.ret.raise \in {"DuplicateIndexError", "DuplicateNameError"})

\* C21: a class statement raises DuplicateIndexError (DuplicateNameError)
\* when a field it declares has the index (name) of an inherited field or
\* when two fields it inherits, declared in different classes, share an
\* index (name); it raises neither when no two distinct fields clash,
\* however many paths lead to the same ancestor.
C21_DuplicateErrors == [][DuplicateStep]_vars

\* C22: in the field list of every class the indices are strictly ascending
\* (so each occurs once and the binary encoder, which walks this list, emits
\* each field once and in ascending order) and each name occurs once.
C22_FlattenedFieldsUnique ==
    \A c \in DOMAIN heap :
        heap[c].cls = "type" =>
            \A i, j \in DOMAIN heap[c]._fields :
                i < j => /\ heap[c]._fields[i].index < heap[c]._fields[j].index
                         /\ heap[c]._fields[i].name # heap[c]._fields[j].name

\* C23: a class body that declares a field with an index outside 1..65535
\* raises DefineError, so the index of every field of every class fits the
\* 16-bit field tag and is not the terminator 0.
C23_IndexRange ==
    /\ last.op = "class" =>
           ((\E i \in DOMAIN last.ret.decls :
                 last.ret.decls[i].index \notin 1..UINT16_MAX)
               => last.ret.raise = "DefineError")
    /\ \A c \in DOMAIN heap :
           heap[c].cls = "type" =>
               \A i \in DOMAIN heap[c]._fields :
                   heap[c]._fields[i].index \in 1..UINT16_MAX

\* C24: a class body that declares a string field with arithm=True raises
\* an error, and no class holds an add_ or sub_ helper for a string field.
C24_ArithmNonNumeric ==
    /\ last.op = "class" =>
           ((\E i \in DOMAIN last.ret.decls :
                 last.ret.decls[i].arithm /\ last.ret.decls[i].typ = "string")
               => last.ret.raise # "")
    /\ \A c \in DOMAIN heap :
           heap[c].cls = "type" =>
               \A i \in DOMAIN heap[c]._fields :
                   heap[c]._fields[i].type_name = "string" =>
                       /\ <<"add", heap[c]._fields[i].name>> \notin heap[c].attrs
                       /\ <<"sub", heap[c]._fields[i].name>> \notin heap[c].attrs

----------------------------------------------------------------------------
(* Packing a record graph: clear_changed, field_filter, frame *)

\* The field filters of a pack: the names of the fields the filter rejects
\* (none: no filter; test_field_filter rejects the fields tagged no_sync)
Filters == {{}, {"x"}, {"oid", "point1"}}

\* A pack that clears the change state whether asked to or not
pack_always_clears(h, a, fmt, only_changed, clear_changed, field_filter) ==
    IF fmt = "dict"
    THEN pack_to_dict(h, a, only_changed, TRUE, field_filter)
    ELSE pack_to_binary(h, a, only_changed, TRUE, field_filter)

\* src.pack(fmt, only_changed=..., clear_changed=..., field_filter=...)
pack(h, a, fmt, only_changed, clear_changed, field_filter) ==
    IF fmt = "dict"
    THEN pack_to_dict(h, a, only_changed, clear_changed, field_filter)
    ELSE pack_to_binary(h, a, only_changed, clear_changed, field_filter)

\* out = src.pack(fmt, only_changed, clear_changed, field_filter), once, at
\* the end of a behaviour
Pack ==
    /\ last.op # "pack"
    /\ \E fmt \in {"dict", "bin"}, only_changed \in BOOLEAN, clear_changed \in BOOLEAN,
          field_filter \in Filters :
        \E r \in {pack(heap, src, fmt, only_changed, clear_changed, field_filter)} :
          /\ heap' = r.h
          /\ last' = Op("pack", fmt, <<>>,
                        [k |-> "pack", out |-> r.ret, only_changed |-> only_changed,
                         clear_changed |-> clear_changed, field_filter |-> field_filter])
    /\ UNCHANGED <<src, dst, steps>>

\* Mutations of a record graph and set_changed on its root, at most
\* MaxPackSteps of them, then one pack
MaxPackSteps == 1
PackMutate == last.op # "pack" /\ steps < MaxPackSteps /\ (Mutate \/ SetChanged)

NextPack == PackMutate \/ Pack

SpecPack == InitGraph /\ [][NextPack]_vars

\* The last operation was pack(fmt) with these options and no filter
Packed(fmt, only_changed, clear_changed) ==
    /\ last.op = "pack" /\ last.field = fmt
    /\ last.ret.only_changed = only_changed
    /\ last.ret.clear_changed = clear_changed
    /\ last.ret.field_filter = {}

\* C25: after pack('dict', only_changed=true, clear_changed=true) the record
\* reports no change and a following pack('dict', only_changed=true) gives {}.
C25_PackClearsChanges ==
    Packed("dict", TRUE, TRUE) =>
        /\ PackChanged(heap, src) = Dict(EmptyFun)
        /\ ~_has_changed(heap, src, TRUE)

\* C25 witness: the clearing pack emitted a changed map, array, nested
\* record and primitive
C25_Witness ==
    /\ Packed("dict", TRUE, TRUE)
    /\ {"coords", "points", "point1"} \subseteq DOMAIN last.ret.out.v
    /\ steps > 0

\* The effect the claim ascribes to a pack without clear_changed: the heap
\* (stored values, change-sets, dirty bits, removed sets) is as before, and
\* the same pack on the graph afterwards gives the same output
PackFrame ==
    (last'.op = "pack" /\ ~last'.ret.clear_changed) =>
        /\ heap' = heap
        /\ pack(heap', src, last'.field, last'.ret.only_changed, FALSE,
                last'.ret.field_filter).ret = last'.ret.out

\* C30: pack(format, clear_changed=false), for either format and any
\* only_changed and field_filter, leaves the whole record graph as it was,
\* so a second encoder over the same graph gives the same output.
C30_PackFrame == [][PackFrame]_vars

\* C30 witness: a pack without clear_changed of a graph that holds changed
\* records, a dirty container and a removed key
C30_Witness ==
    /\ last.op = "pack" /\ ~last.ret.clear_changed
    /\ _has_changed(heap, src, TRUE)
    /\ Stored("points") # VNone /\ Stored("points").changed
    /\ Removed(heap, src, "coords") # {}

\* The dict form d of a record of class cls without the fields a filter
\* rejects, at every level: in the record itself, in the elements of its
\* arrays, in the values of its maps and id-maps and in its nested records.
\* References and primitives are values, not records.
RECURSIVE Filtered(_, _, _)
RECURSIVE FilteredEntries(_, _, _, _)
FilteredEntries(m, keys, cls, rejected) ==
    IF keys = {} THEN EmptyFun
    ELSE LET key == CHOOSE x \in keys : TRUE
         IN  (key :> Filtered(m[key], cls, rejected))
                 @@ FilteredEntries(m, keys \ {key}, cls, rejected)

FilteredValue(field, v, rejected) ==
    IF ~field.is_data_model_type \/ field.ref THEN v
    ELSE IF field.array
    THEN List(FoldSeq(LAMBDA acc, e : Append(acc, Filtered(e, field.value_type, rejected)),
                      <<>>, v.v))
    ELSE IF field.map \/ field.id_map
    THEN Dict(FilteredEntries(v.v, DOMAIN v.v, field.value_type, rejected))
    ELSE Filtered(v, field.value_type, rejected)

RECURSIVE FilteredFields(_, _, _, _)
FilteredFields(d, names, cls, rejected) ==
    IF names = {} THEN EmptyFun
    ELSE LET name == CHOOSE x \in names : TRUE
         IN  (name :> FilteredValue(_fields_by_name(cls, name), d.v[name], rejected))
                 @@ FilteredFields(d, names \ {name}, cls, rejected)

Filtered(d, cls, rejected) == Dict(FilteredFields(d, DOMAIN d.v \ rejected, cls, rejected))

\* C26: pack('dict', field_filter=f) is pack('dict') without, at every
\* nesting level, the fields that f rejects.
C26_FieldFilter ==
    (last.op = "pack" /\ last.field = "dict" /\ ~last.ret.only_changed) =>
        last.ret.out = Filtered(PackDict(heap, src), heap[src].cls, last.ret.field_filter)

\* C26 witness: a filter took a field out of the root, out of a map value,
\* out of an array element and out of an id-map value
C26_Witness ==
    /\ last.op = "pack" /\ last.field = "dict" /\ ~last.ret.only_changed
    /\ last.ret.field_filter = {"oid", "point1"}
    /\ Stored("point1") # VNone
    /\ \E key \in KeysOf("coords") : "oid" \notin DOMAIN last.ret.out.v["coords"].v[key].v
    /\ \E key \in KeysOf("coords") : "oid" \in DOMAIN PackDict(heap, src).v["coords"].v[key].v
    /\ LenOf("points") > 0 /\ KeysOf("objects") # {}

----------------------------------------------------------------------------
(* The delta of nested records *)

\* The mapping x |-> F(x) over a set of strings
RECURSIVE MapKeys(_, _)
MapKeys(F(_), S) ==
    IF S = {} THEN EmptyFun
    ELSE LET x == CHOOSE y \in S : TRUE IN (x :> F(x)) @@ MapKeys(F, S \ {x})

\* The scalar nested-record fields of Scene, and those of them not declared
\* skip_changed
NestedFields ==
    {f \in FieldNames("Scene") :
        LET field == _fields_by_name("Scene", f)
        IN  field.is_data_model_type /\ ~is_container(field) /\ ~field.ref}
TrackedNestedFields == {f \in NestedFields : ~_fields_by_name("Scene", f).skip_changed}

\* The record reports no change of its own: no field is in its change-set
\* and no container it holds has a change
OnlyNestedChanges(h, a) ==
    /\ ~_has_changed(h, a, FALSE)
    /\ \A i \in DOMAIN _fields(h[a].cls) :
           is_container(_fields(h[a].cls)[i])
               => ~_has_field_changed(h, a, _fields(h[a].cls)[i], TRUE)

\* The stored fields of record v that v reports as changed
ChangedOf(h, v) ==
    {g \in FieldNames(h[v].cls) : h[v].d[g] # VNone /\ has_changed(h, v, g, FALSE)}

\* The delta the claim describes for the nested fields in `fields`: under
\* the name of each field whose record has a change, exactly the changed
\* fields of that record; nothing for the others
NestedDelta(h, a, fields) ==
    Dict(MapKeys(LAMBDA f : Dict(MapKeys(LAMBDA g : h[h[a].d[f].v].d[g],
                                         ChangedOf(h, h[a].d[f].v))),
                 {f \in fields : h[a].d[f] # VNone /\ ChangedOf(h, h[a].d[f].v) # {}}))

\* src.f.x = v on a record with no change of its own: the only_changed
\* pack is the delta of the nested records, and it holds x = v under f when
\* v differs from the value stored before
NestedDeltaStep(fields) ==
    (last'.op = "set_nested" /\ OnlyNestedChanges(heap, src)) =>
        /\ PackChanged(heap', src) = NestedDelta(heap', src, fields)
        /\ (last'.field \in fields /\ heap[Stored(last'.field).v].d["x"] # last'.ret)
               => /\ last'.field \in DOMAIN PackChanged(heap', src).v
                  /\ "x" \in DOMAIN PackChanged(heap', src).v[last'.field].v
                  /\ PackChanged(heap', src).v[last'.field].v["x"] = last'.ret

\* C27 as stated: after primitive fields of the nested records of a clean
\* record are set, pack('dict', only_changed=true) holds, for each scalar
\* nested-record field whose record has a change, exactly the changed fields
\* of that record, and no other field.
C27_NestedDeltaAnyField == [][NestedDeltaStep(NestedFields)]_vars

\* C27 amended: the same for the scalar nested-record fields that are not
\* declared skip_changed; a skip_changed field is never in the delta.
C27_NestedDeltaTracked == [][NestedDeltaStep(TrackedNestedFields)]_vars

\* C27 witness: point1.x was set to a new value on a record without a change
\* of its own, and the delta holds point1 alone
C27_Witness ==
    /\ last.op = "set_nested" /\ last.field = "point1"
    /\ OnlyNestedChanges(heap, src)
    /\ DOMAIN PackChanged(heap, src).v = {"point1"}
    /\ PackChanged(heap, src).v["point1"] = Dict([x |-> VInt(1)])

----------------------------------------------------------------------------
(* Reading a field *)

\* The property of a field read on record a, v = a.f: _fget_container for
\* a container field, _fget with field.default for any other.  [h, ret]
property_get(h, a, fname) ==
    IF is_container(_fields_by_name(h[a].cls, fname))
    THEN Bind(_fget_container(h, a, fname), LAMBDA h1 : [h |-> h1, ret |-> h1[a].d[fname]])
    ELSE [h |-> h, ret |-> _fget(h, a, fname)]

\* The generated a.get_f(): __dict__.setdefault(key, default_type()) for a
\* container or a record type, setdefault(key, default_value) for a
\* primitive.  [h, ret]
get_func(h, a, fname) ==
    LET field == _fields_by_name(h[a].cls, fname)
    IN  IF h[a].d[fname] # VNone THEN [h |-> h, ret |-> h[a].d[fname]]
        ELSE IF is_container(field)
        THEN Bind(PutField(h, a, fname, container_class(field)),
                  LAMBDA h1 : [h |-> h1, ret |-> h1[a].d[fname]])
        ELSE IF field.is_data_model_type
        THEN [h |-> PutField(Alloc(h, set_data(field.value_type, EmptyFun)), a, fname,
                             VObj(NewAddr(h))),
              ret |-> VObj(NewAddr(h))]
        ELSE [h |-> PutField(h, a, fname, default(field)), ret |-> default(field)]

\* A Scene built by its constructor, or Point()
InitRead ==
    /\ heap \in {Construct(p, s, n) : p \in BOOLEAN, s \in BOOLEAN, n \in BOOLEAN}
                    \cup {<<set_data("Point", EmptyFun)>>}
    /\ src = 1
    /\ dst = 0
    /\ last = Op("init", "", <<>>, VNone)
    /\ steps = 0

\* v = src.f
GetAttr ==
    \E f \in FieldNames(heap[src].cls) :
      \E r \in {property_get(heap, src, f)} :
        /\ CanMutate
        /\ heap' = r.h
        /\ last' = Op("getattr", f, <<>>, r.ret)
        /\ steps' = steps + 1
        /\ UNCHANGED <<src, dst>>

\* v = src.get_f()
GetFunc ==
    \E f \in FieldNames(heap[src].cls) :
      \E r \in {get_func(heap, src, f)} :
        /\ CanMutate
        /\ heap' = r.h
        /\ last' = Op("get", f, <<>>, r.ret)
        /\ steps' = steps + 1
        /\ UNCHANGED <<src, dst>>

NextRead == SetN \/ GetAttr \/ GetFunc

SpecRead == InitRead /\ [][NextRead]_vars

\* The value the claim ascribes to the read of a field without a stored
\* value: the declared default, or the canonical default of the type, for
\* a primitive; an empty container; a record, not None, for a nested record
DefaultRead(field, v) ==
    IF is_container(field)
    THEN v = container_class(field)
    ELSE IF field.is_data_model_type
    THEN v.k = "obj"
    ELSE IF "default" \in DOMAIN field /\ field.default # VNone
    THEN v = field.default
    ELSE v = (IF field.value_type = "string" THEN VStr("") ELSE VInt(0))

\* C28: reading a field that has no stored value yields the declared or
\* canonical default for a primitive field, an empty container for an
\* array, map or id-map field, and a record (not None) for a scalar
\* nested-record field.
C28_DefaultOnRead ==
    [][(last'.op = "getattr" /\ heap[src].d[last'.field] = VNone)
          => DefaultRead(_fields_by_name(heap[src].cls, last'.field), last'.ret)]_vars

----------------------------------------------------------------------------
(* Operations that take field names *)

\* The result of a call that returns v
Return(v) == [raise |-> "", v |-> v]

\* Some name is not a field of the class
is_field(cls, name) == name \in FieldNames(cls)

\* DataModel.has_changed(field_name): NoFieldError when _fields_by_name has
\* no such field.  [h, ret]
has_changed_named(h, a, field_name) ==
    IF ~is_field(h[a].cls, field_name)
    THEN [h |-> h, ret |-> Raise("NoFieldError")]
    ELSE [h |-> h, ret |-> Return(has_changed(h, a, field_name, FALSE))]

\* DataModel.set_changed(*field_names): _set_changed adds the index of each
\* name in turn and raises NoFieldError at the first name that is no field;
\* the names before it stay marked.  [h, ret]
set_changed(h, a, field_names) ==
    LET unknown == {i \in DOMAIN field_names : ~is_field(h[a].cls, field_names[i])}
        first == CHOOSE i \in unknown : \A j \in unknown : i <= j
    IN  IF unknown = {}
        THEN [h |-> _set_changed(h, a, field_names), ret |-> Return(VNone)]
        ELSE [h |-> IF first = 1 THEN h
                    ELSE _set_changed(h, a, SubSeq(field_names, 1, first - 1)),
              ret |-> Raise("NoFieldError")]

\* DataModel.clear_changed(*field_names): _clear_changed looks each name up
\* and clears the field `if field`; a name that is no field is passed over.
\* [h, ret]
clear_changed(h, a, field_names) ==
    LET known == SelectSeq(field_names, LAMBDA name : is_field(h[a].cls, name))
    IN  [h |-> IF Len(field_names) > 0 /\ known = <<>> THEN h
               ELSE _clear_changed(h, a, known, TRUE),
         ret |-> Return(VNone)]

\* DataModel.is_default_value(field_name).  [h, ret]
_is_default_value(h, a, name) ==
    IF ~is_field(h[a].cls, name)
    THEN [h |-> h, ret |-> Raise("NoFieldError")]
    ELSE [h |-> h, ret |-> Return(h[a].d[name] = VNone)]

\* The names passed to these operations: fields of Scene, and a name that
\* is no field
NameArgs == {<<"n">>, <<"point1">>, <<"nope">>, <<"n", "nope">>, <<"nope", "n">>}

\* src.has_changed(name), src.is_default_value(name)
Query ==
    \E op \in {"has_changed", "is_default_value"}, names \in {ns \in NameArgs : Len(ns) = 1} :
      \E r \in {IF op = "has_changed" THEN has_changed_named(heap, src, names[1])
                ELSE _is_default_value(heap, src, names[1])} :
        /\ CanMutate
        /\ heap' = r.h
        /\ last' = Op(op, "", names, r.ret)
        /\ steps' = steps + 1
        /\ UNCHANGED <<src, dst>>

\* src.set_changed(*names)
SetChangedNames ==
    \E names \in NameArgs :
      \E r \in {set_changed(heap, src, names)} :
        /\ CanMutate
        /\ heap' = r.h
        /\ last' = Op("set_changed", "", names, r.ret)
        /\ steps' = steps + 1
        /\ UNCHANGED <<src, dst>>

\* src.clear_changed(*names)
ClearChangedAnyNames ==
    \E names \in NameArgs :
      \E r \in {clear_changed(heap, src, names)} :
        /\ CanMutate
        /\ heap' = r.h
        /\ last' = Op("clear_changed", "", names, r.ret)
        /\ steps' = steps + 1
        /\ UNCHANGED <<src, dst>>

NextNames == SetN \/ SetRecord \/ Query \/ SetChangedNames \/ ClearChangedAnyNames

SpecNames == Init /\ [][NextNames]_vars

\* C29: has_changed(name), set_changed(names), clear_changed(names) and
\* is_default_value(name) raise NoFieldError when a name given is not a
\* field of the record's type.
C29_NoFieldError ==
    (/\ last.op \in {"has_changed", "set_changed", "clear_changed", "is_default_value"}
     /\ \E i \in DOMAIN last.names : ~is_field(heap[src].cls, last.names[i]))
        => last.ret = Raise("NoFieldError")

----------------------------------------------------------------------------
(* Unpacking into a record that already holds data *)

\* An unpack that empties the record before it decodes into it
unpack_emptying(h, a, fmt, data, mode, resolve_ref_cb, mark_change) ==
    IF fmt = "dict"
    THEN unpack_from_dict([h EXCEPT ![a] = _create_object(h[a].cls)], a, data, mode,
                          resolve_ref_cb, mark_change)
    ELSE unpack_from_binary([h EXCEPT ![a] = _create_object(h[a].cls)], a, data, mode,
                            resolve_ref_cb, mark_change)

\* self.unpack(fmt, data, mode, resolve_ref, mark_change)
unpack(h, a, fmt, data, mode, resolve_ref_cb, mark_change) ==
    IF fmt = "dict"
    THEN unpack_from_dict(h, a, data, mode, resolve_ref_cb, mark_change)
    ELSE unpack_from_binary(h, a, data, mode, resolve_ref_cb, mark_change)

\* data with field name set to None (a field the sender's schema does not
\* know how to fill); "" for no field
with_null(data, name) ==
    Bind(data, LAMBDA d : IF name = "" THEN d ELSE Dict(SetKey(d.v, name, VNone)))

\* unsolved = r2.unpack(fmt, r1.pack(fmt, only_changed=...), mode=...,
\* mark_change=...), once, at the end of a behaviour; the dict form may have
\* point1 set to None.  The dict form of what r1 packed is kept next to the
\* data that was unpacked.
Unpack ==
    /\ last.op # "unpack"
    /\ \E fmt \in {"dict", "bin"}, mode \in {"sync", "override"},
          only_changed \in BOOLEAN, mark_change \in BOOLEAN, nulled \in {"", "point1"} :
        /\ fmt = "bin" => nulled = ""
        /\ \E dict_data \in {with_null(pack_to_dict(heap, src, only_changed, FALSE, {}).ret,
                                        nulled)} :
            \E data \in {IF fmt = "dict" THEN dict_data
                         ELSE pack_to_binary(heap, src, only_changed, FALSE, {}).ret} :
              \E r \in {unpack(heap, dst, fmt, data, mode, "none", mark_change)} :
                /\ heap' = r.h
                /\ last' = Op("unpack", fmt, <<>>,
                              [k |-> "unpack", data |-> data, mode |-> mode,
                               dict_data |-> dict_data,
                               only_changed |-> only_changed,
                               mark_change |-> mark_change, unsolved |-> r.ret])
    /\ UNCHANGED <<src, dst, steps>>

\* r1 and its clean copy r2 as in Pairs, the populated pair after
\*   del r1.coords['a']
\* and r1 = Scene() with a populated and cleared r2
UnpackPairs ==
    Bind(Pairs,
         LAMBDA P :
           Bind(CHOOSE q \in P : Len(q.h) > 2,
                LAMBDA p :
                  P \cup {[h |-> Map_delitem(p.h, 1, "coords", "a"), r2 |-> p.r2],
                          [h |-> _clear_changed(Populate(<<set_data("Scene", EmptyFun)>>),
                                                2, <<>>, TRUE),
                           r2 |-> 2]}))

InitUnpack ==
    /\ \E p \in UnpackPairs : heap = p.h /\ dst = p.r2
    /\ src = 1
    /\ last = Op("init", "", <<>>, VNone)
    /\ steps = 0

\* Mutations of r1, at most MaxPackSteps of them, then one unpack into r2
UnpackMutate == last.op # "unpack" /\ steps < MaxPackSteps /\ Mutate

NextUnpack == UnpackMutate \/ Unpack

SpecUnpack == InitUnpack /\ [][NextUnpack]_vars

\* The last step was r2.unpack('dict', ...) in this mode
Decoded(mode) == last'.op = "unpack" /\ last'.field = "dict" /\ last'.ret.mode = mode

\* The keys of map field f in dict-form input data whose payload is not
\* null, and those whose payload is null
LiveKeys(data, f) == {dict_key_decoder(k) : k \in {j \in DOMAIN data.v[f].v : data.v[f].v[j] # VNone}}
NullKeys(data, f) == {dict_key_decoder(k) : k \in {j \in DOMAIN data.v[f].v : data.v[f].v[j] = VNone}}

\* A decode of map field f, present in the input, into r2.  In sync mode the
\* keys are (old keys + keys with a payload) - keys with null, an entry
\* whose key the input does not mention is the same, and for the fields of
\* patched an old entry that the input patches is the same object.  In
\* override mode the keys are those with a payload.
DecodeKeys(f, patched) ==
    LET data == last'.ret.data
        old == EntriesOf(heap, dst, f)
        new == EntriesOf(heap', dst, f)
    IN  /\ Decoded("sync") =>
             /\ DOMAIN new = (DOMAIN old \cup LiveKeys(data, f)) \ NullKeys(data, f)
             /\ \A k \in DOMAIN old \ (LiveKeys(data, f) \cup NullKeys(data, f)) :
                    new[k] = old[k]
             /\ f \in patched => \A k \in DOMAIN old \cap LiveKeys(data, f) : new[k] = old[k]
        /\ Decoded("override") => DOMAIN new = LiveKeys(data, f)

DecodeKeysStep(patched) ==
    \A f \in MapFields :
        (last'.op = "unpack" /\ last'.field = "dict" /\ dict_get(last'.ret.data.v, f) # VNone)
            => DecodeKeys(f, patched)

\* C31 as stated: decoding a map or id-map from the dict form in sync mode
\* leaves the keys (old keys + keys with a non-null payload) - keys with a
\* null payload, leaves the entries the input does not mention as they
\* were, and keeps the object of an entry that is patched; in override mode
\* the keys are exactly the keys with a non-null payload.
C31_DecodeKeysAnyMap == [][DecodeKeysStep(MapFields)]_vars

\* C31 witness: a sync decode of coords whose input has a tombstone and a
\* payload; r2.coords lost the one key and holds the other
C31_Witness ==
    /\ last.op = "unpack" /\ last.field = "dict" /\ last.ret.mode = "sync"
    /\ dict_get(last.ret.data.v, "coords") # VNone
    /\ NullKeys(last.ret.data, "coords") # {}
    /\ LiveKeys(last.ret.data, "coords") # {}
    /\ NullKeys(last.ret.data, "coords") \cap Held_keys(heap, dst, "coords") = {}
    /\ LiveKeys(last.ret.data, "coords") \subseteq Held_keys(heap, dst, "coords")

\* The map and id-map fields of a Scene that own their entries
OwningMapFields == {f \in MapFields : ~_fields_by_name("Scene", f).ref}

\* C31 amended: as C31, the patched entry keeping its object only in a map
\* or id-map that is not a reference field.
C31_DecodeKeysOwningMap == [][DecodeKeysStep(OwningMapFields)]_vars

----------------------------------------------------------------------------
(* Assigning a record to a scalar field *)

\* src.point1 = Coord(x=x) on a parent that reported no change: the next
\* pack('dict', only_changed=True) carries point1 with the dict form of the
\* new record
AssignRecordStep ==
    (/\ last'.op = "set" /\ last'.field = "point1"
     /\ ~_has_changed(heap, src, TRUE))
        => /\ "point1" \in DOMAIN PackChanged(heap', src).v
           /\ PackChanged(heap', src).v["point1"] = PackDict(heap', last'.ret.v)

\* C32: assigning a new record to a scalar nested-record field of a clean
\* parent makes the next pack('dict', only_changed=true) contain the field
\* with all stored fields of the new record.
C32_AssignedRecordInDelta == [][AssignRecordStep]_vars

----------------------------------------------------------------------------
(* Tombstones and the keys a map holds *)

\* C33: the removed set of a map is disjoint from its keys, and a key the
\* map holds is not a null tombstone in pack('dict', only_changed=true).
C33_RemovedDisjointFromKeys ==
    \A f \in MapFields :
        /\ Removed(heap, src, f) \cap Held_keys(heap, src, f) = {}
        /\ \A k \in Held_keys(heap, src, f) : ~Tombstone(PackChanged(heap, src), f, k)

----------------------------------------------------------------------------
(* has_changed(recursive=True) over a record graph *)

\* Entities are added to a World, removed, their nested record is written,
\* and the World is cleared
NextDeep == EntityAdd \/ EntityRemove \/ EntityPosSetX \/ ClearChanged

SpecDeep == InitWorld /\ [][NextDeep]_vars

\* Some record owned by the root, or some container of such a record, has a
\* change state that is not empty
AnyOwnedChange(h, root) ==
    \E a \in Reach(h, {root}, TRUE) :
        \/ h[a].chg # {}
        \/ \E c \in Containers(h, a, TRUE) : c.changed \/ (c.k = "map" /\ c.removed # {})

\* C34: has_changed(recursive=true) on the root is true whenever a record or
\* container the root owns, at any depth, has a change state that is not
\* empty.
C34_RecursiveHasChanged == AnyOwnedChange(heap, src) => _has_changed(heap, src, TRUE)

----------------------------------------------------------------------------
(* Unpacking and the change state of the destination *)

\* The indices of the fields of the root that the dict-form input of the
\* last unpack carries
DecodedIndexes ==
    {_fields_by_name("Scene", f).index :
        f \in {g \in FieldNames("Scene") : dict_get(last.ret.data.v, g) # VNone}}

\* No container of record a is dirty or has a removed key
ContainersClean(h, a) ==
    \A c \in Containers(h, a, FALSE) : ~c.changed /\ (c.k = "map" => c.removed = {})

\* After r2.unpack(..., mark_change=False) into the clean r2, r2 reports no
\* change, recursively, and none of its containers is dirty or has a
\* removed key
UnpackLeavesClean ==
    (last.op = "unpack" /\ ~last.ret.mark_change)
        => ~_has_changed(heap, dst, TRUE) /\ ContainersClean(heap, dst)

\* After r2.unpack('dict', ..., mark_change=True) the change-set of r2 holds
\* exactly the indices of the decoded fields
UnpackMarksDecoded ==
    (last.op = "unpack" /\ last.field = "dict" /\ last.ret.mark_change)
        => heap[dst].chg = DecodedIndexes

\* C35: unpack with mark_change=false leaves a clean destination clean (no
\* record reports a change, no container is dirty or has a removed key);
\* with mark_change=true exactly the decoded field indices are in the
\* change-set of the decoded record.
C35_UnpackMarkChange == UnpackLeavesClean /\ UnpackMarksDecoded

----------------------------------------------------------------------------
(* Unpacking and the fields the input does not carry *)

\* The fields of a Scene that the input of the unpack of this step does not
\* carry, or carries as null.  The binary form of a complete pack carries
\* the fields its dict form carries; the binary form has no null.
AbsentFields ==
    {f \in FieldNames("Scene") : dict_get(last'.ret.dict_data.v, f) = VNone}

\* The step is an unpack whose input is known field by field
FieldwiseUnpack ==
    /\ last'.op = "unpack"
    /\ last'.field = "bin" => ~last'.ret.only_changed

\* An unpack leaves every field of r2 that its input does not carry with the
\* value it had: the same primitive, the same record, the same container
\* with the same entries.  The records held by a field that owns them (one
\* that is not a reference field) are as they were.
AbsentUntouched ==
    FieldwiseUnpack =>
        \A f \in AbsentFields :
            /\ heap'[dst].d[f] = heap[dst].d[f]
            /\ ~_fields_by_name("Scene", f).ref
                   => \A a \in Held(heap[dst].d[f]) : heap'[a] = heap[a]

\* C36: unpack in either mode leaves untouched every field of the
\* destination that is absent from the input or null in it: the stored
\* value, and the identity and content of what it holds, are the same before
\* and after the call.
C36_AbsentFieldsUntouched == [][AbsentUntouched]_vars

\* C36 witness: an unpack of the binary form of a complete pack that
\* decoded coords into r2 and whose input did not carry points and point1,
\* which r2 holds
C36_Witness ==
    /\ last.op = "unpack" /\ last.field = "bin" /\ ~last.ret.only_changed
    /\ dict_get(last.ret.dict_data.v, "coords") # VNone
    /\ dict_get(last.ret.dict_data.v, "points") = VNone
    /\ dict_get(last.ret.dict_data.v, "point1") = VNone
    /\ heap[dst].d["points"] # VNone /\ heap[dst].d["point1"] # VNone

----------------------------------------------------------------------------
(* The two decoders on references *)

\* d1 = Scene(); u1 = d1.unpack('dict', src.pack('dict'))
\* d2 = Scene(); u2 = d2.unpack('bin', src.pack('bin'))
UnpackBoth ==
    /\ last.op # "unpack_both"
    /\ \E r1 \in {unpack_from_dict(Alloc(heap, set_data("Scene", EmptyFun)), NewAddr(heap),
                                    PackDict(heap, src), "override", "none", FALSE)} :
         \E r2 \in {unpack_from_binary(Alloc(r1.h, set_data("Scene", EmptyFun)),
                                        NewAddr(r1.h),
                                        pack_to_binary(heap, src, FALSE, FALSE, {}).ret,
                                        "override", "none", FALSE)} :
           /\ heap' = r2.h
           /\ dst' = NewAddr(heap)
           /\ last' = Op("unpack_both", "", <<>>,
                         [k |-> "unpack_both", d2 |-> NewAddr(r1.h),
                          dict_unsolved |-> r1.ret, bin_unsolved |-> r2.ret])
    /\ UNCHANGED <<src, steps>>

NextBoth == (last.op # "unpack_both" /\ Mutate) \/ UnpackBoth

SpecBoth == InitGraph /\ [][NextBoth]_vars

\* The keys of the reference map of record a whose slot holds a record
ResolvedSlots(h, a) ==
    {key \in DOMAIN EntriesOf(h, a, "refs") : EntriesOf(h, a, "refs")[key].k = "obj"}

\* C37: for the same source graph and no resolve_ref callback, the dict
\* decoder and the binary decoder return the same unsolved map and resolve
\* the same reference slots.
C37_DecodersAgreeOnRefs ==
    last.op = "unpack_both" =>
        /\ last.ret.dict_unsolved = last.ret.bin_unsolved
        /\ ResolvedSlots(heap, dst) = ResolvedSlots(heap, last.ret.d2)

----------------------------------------------------------------------------
(* Packing with a filter and clear_changed *)

\* pack(only_changed=True, clear_changed=True, field_filter=f) leaves a field
\* of the root that f rejects, and that reported a change, reporting it
FilteredKeepsChange ==
    (/\ last'.op = "pack"
     /\ last'.ret.only_changed /\ last'.ret.clear_changed)
        => \A g \in last'.ret.field_filter \cap FieldNames("Scene") :
               has_changed(heap, src, g, FALSE) => has_changed(heap', src, g, FALSE)

\* C38: pack(only_changed=true, clear_changed=true, field_filter=f) clears
\* the change marks only of what it emitted: a field rejected by f that was
\* changed before the call still reports has_changed afterwards.
C38_FilteredFieldKeepsChange == [][FilteredKeepsChange]_vars

----------------------------------------------------------------------------
(* The change state of a map: clean, dirty, dirty with tombstones *)

\* Map.pop that records the key in _removed and leaves the dirty bit alone
Map_pop_silent(h, a, fname, key) ==
    LET h0 == _fget_container(h, a, fname)
        c  == h0[a].d[fname]
    IN  PutField(h0, a, fname, [c EXCEPT !.removed = @ \cup {key}, !.m = DelKey(@, key)])

\* Map.pop(key): the marks are made before dict.pop looks the key up
Map_pop(h, a, fname, key) ==
    LET h0 == _fget_container(h, a, fname)
        c  == h0[a].d[fname]
    IN  PutField(h0, a, fname,
                 [c EXCEPT !.changed = TRUE, !.removed = @ \cup {key}, !.m = DelKey(@, key)])

\* Map.clear()
Map_clear(h, a, fname) ==
    LET h0 == _fget_container(h, a, fname)
        c  == h0[a].d[fname]
    IN  PutField(h0, a, fname,
                 [c EXCEPT !.changed = TRUE, !.removed = @ \cup DOMAIN c.m, !.m = EmptyFun])

\* Map.popitem() taking the entry of key; on an empty map dict.popitem
\* raises after the dirty bit is set
Map_popitem(h, a, fname, key) ==
    LET h0 == _fget_container(h, a, fname)
        c  == h0[a].d[fname]
    IN  IF DOMAIN c.m = {}
        THEN PutField(h0, a, fname, [c EXCEPT !.changed = TRUE])
        ELSE PutField(h0, a, fname,
                      [c EXCEPT !.changed = TRUE, !.removed = @ \cup {key},
                                !.m = DelKey(@, key)])

\* The result of taking key out of field f of the source: KeyError when the
\* map does not hold it
Lookup_result(f, key) == IF key \in KeysOf(f) THEN Return(VNone) ELSE Raise("KeyError")

\* del src.f[k], src.f.pop(k) for any key
MapDelAny ==
    \E f \in MapFields, key \in Keys, op \in {"map_del", "map_pop"} :
        /\ CanMutate
        /\ heap' = IF op = "map_del" THEN Map_delitem(heap, src, f, key)
                   ELSE Map_pop(heap, src, f, key)
        /\ last' = Op(op, f, <<key>>, Lookup_result(f, key))
        /\ steps' = steps + 1
        /\ UNCHANGED <<src, dst>>

\* src.f.clear()
MapClear ==
    \E f \in MapFields :
        /\ CanMutate
        /\ heap' = Map_clear(heap, src, f)
        /\ last' = Op("map_clear", f, <<>>, Return(VNone))
        /\ steps' = steps + 1
        /\ UNCHANGED <<src, dst>>

\* src.f.popitem(): any entry of the map
MapPopItem ==
    \E f \in MapFields :
      \E key \in (IF KeysOf(f) = {} THEN {""} ELSE KeysOf(f)) :
        /\ CanMutate
        /\ heap' = Map_popitem(heap, src, f, key)
        /\ last' = Op("map_popitem", f, <<key>>,
                      IF KeysOf(f) = {} THEN Raise("KeyError") ELSE Return(VStr(key)))
        /\ steps' = steps + 1
        /\ UNCHANGED <<src, dst>>

\* src.objects.remove(Coord(oid=k)): a record the id-map may not hold
ObjectsRemoveAny ==
    \E key \in Keys :
        /\ CanMutate
        /\ heap' = IdMap_remove(Alloc(heap, Coord_oid_x(key, 0)), src, "objects",
                                VObj(NewAddr(heap)))
        /\ last' = Op("remove", "objects", <<key>>, Lookup_result("objects", key))
        /\ steps' = steps + 1
        /\ UNCHANGED <<src, dst>>

NextTomb ==
    \/ CoordsSet
    \/ ObjectsAdd
    \/ MapDelAny
    \/ MapClear
    \/ MapPopItem
    \/ ObjectsRemoveAny
    \/ ClearChanged

SpecTomb == InitGraph /\ [][NextTomb]_vars

\* C39: a map or id-map with a removed key is dirty, whatever operations
\* were applied, deletions of missing keys included; after clear_changed it
\* has no removed key and is not dirty.
C39_TombstonesImplyDirty ==
    \A f \in MapFields :
        /\ Removed(heap, src, f) # {} => Stored(f).changed
        /\ (Cleared /\ Stored(f) # VNone) => (Removed(heap, src, f) = {} /\ ~Stored(f).changed)

\* C39 witness: a deletion or removal that raised for a missing key and left
\* its tombstone
C39_Witness ==
    /\ last.op \in {"map_del", "map_pop", "remove"}
    /\ last.ret = Raise("KeyError")
    /\ last.names[1] \in Removed(heap, src, last.field)
    /\ last.names[1] \notin Held_keys(heap, src, last.field)

----------------------------------------------------------------------------
(* The write buffer of the binary encoder *)

INIT_BUFF_SIZE == 4096
MORE_BUFF_SPACE == 1024

\* WriteBuffer(): len(self.b) and self.offset
WriteBuffer == [cls |-> "WriteBuffer", len_b |-> INIT_BUFF_SIZE, offset |-> 0]

\* WriteBuffer.check_size(new_size): when the buffer is too short it calls
\* self.b.expand(MORE_BUFF_SPACE), and a bytearray has no method expand
check_size(wb, new_size) ==
    IF wb.len_b < new_size THEN Raise("AttributeError") ELSE Return(VNone)

\* WriteBuffer.pull(n): [wb, ret]; the offset moves after check_size returned
WriteBuffer_pull(wb, n) ==
    IF check_size(wb, wb.offset + n).raise # ""
    THEN [wb |-> wb, ret |-> check_size(wb, wb.offset + n)]
    ELSE [wb |-> [wb EXCEPT !.offset = wb.offset + n], ret |-> Return(VInt(wb.offset))]

\* The sizes pulled: a field index, a uint32, a container head, strings
\* shorter and longer than MORE_BUFF_SPACE, a string of INIT_BUFF_SIZE bytes
PullSizes == {1, 2, 4, MORE_BUFF_SPACE, MORE_BUFF_SPACE + 1, INIT_BUFF_SIZE - 2}

\* Pulls of one behaviour
MaxPulls == 4

\* buf = WriteBuffer(): the buffer is object 1
InitBuffer ==
    /\ heap = <<WriteBuffer>>
    /\ src = 1
    /\ dst = 0
    /\ last = Op("init", "", <<>>, VNone)
    /\ steps = 0

\* buf.pull(n); a pull that raised ends the encoding
Pull ==
    \E n \in PullSizes :
      \E r \in {WriteBuffer_pull(heap[src], n)} :
        /\ steps < MaxPulls
        /\ last.op = "pull" => last.ret.raise = ""
        /\ heap' = <<r.wb>>
        /\ last' = Op("pull", "", <<>>, r.ret @@ [n |-> n])
        /\ steps' = steps + 1
        /\ UNCHANGED <<src, dst>>

NextBuffer == Pull

SpecBuffer == InitBuffer /\ [][NextBuffer]_vars

\* C40: every WriteBuffer.pull(n) succeeds and leaves the buffer at least as
\* long as the new write offset, for any sequence of pulls.
C40_BufferGrows ==
    last.op = "pull" => (last.ret.raise = "" /\ heap[src].len_b >= heap[src].offset)

====
